---------------------------- MODULE Spec2Model ----------------------------
(***************************************************************************)
(* Z-Coordinate Corrector (z_coordinate_corrector_enhanced.py): the        *)
(* geometry correction engine of ZCoordinatePlugin as a state machine.     *)
(*                                                                         *)
(* Numbers.  Coordinates and Z values are integers.  Every vertex of the   *)
(* survey network below lies on an integer grid and every crossing point   *)
(* is a grid point that divides its segment at a dyadic parameter          *)
(* (t = 1/2), so that every floating-point operation of the code on these  *)
(* inputs is exact and integer arithmetic computes the same values.        *)
(* A tolerance is 0 (exact matching) or a positive value below the grid    *)
(* resolution (0.001, 1e-6): for integer differences d and tolerance tol,  *)
(* abs(d) < tol is  tol > 0 /\ d = 0, and dist_sq <= tol*tol is            *)
(* dist_sq = 0.                                                            *)
(*                                                                         *)
(* Geometries.  A QgsGeometry is a record [multi, parts]: the WKT type     *)
(* (LINESTRING Z / MULTILINESTRING Z) and the coordinate runs of its       *)
(* parts.  asWkt()/fromWkt() keep both (17 significant digits), so a WKT   *)
(* string is the same record; parse_wkt, which only keeps the numbers,     *)
(* flattens the parts into one run.                                        *)
(***************************************************************************)
EXTENDS Integers, Sequences, FiniteSets, TLC

VARIABLES
    geoms,               \* layer id -> (fid -> geometry): the project's line layers
    paths,               \* self.paths: is 'output' / 'contour' set
    nodes_csv,           \* self.nodes_csv: the problem nodes of the last detection
    undo_stack,          \* self.undo_stack
    correction_history,  \* self.correction_history
    last,                \* the last handler run: its name, the message it showed,
                         \* the geometries it started from and the layers that
                         \* were selected (get_selected_layers) when it ran
    contour_ref,         \* the contour reference file as QgsVectorLayer(
                         \* self.paths['contour'], "contour", "ogr") loads it: its
                         \* features and whether a handler put it in edit state
    detected_contour_issues,  \* self.detected_contour_issues
    verify_results       \* the report of the last run_verification: the issues of
                         \* its two checks, the status it showed and whether it
                         \* enabled the export button

vars == <<geoms, paths, nodes_csv, undo_stack, correction_history, last, contour_ref,
          detected_contour_issues, verify_results>>

-----------------------------------------------------------------------------
(* Bounds *)

\* corrections recorded in correction_history before the model stops applying more
MaxHistory == 2
\* external and contour corrections are applied only while the history is this short
MaxMixed == 1
\* corrections recorded in correction_history in the runs that fill the undo stack
MaxDeep == 11
\* update_z is applied to lines of fewer than this many vertices
MaxVertices == 4

-----------------------------------------------------------------------------
(* Program constants *)

max_undo_levels == 10
\* self.intersection_tolerance.setValue(0.001): positive, below the grid resolution
intersection_tolerance == 1
\* the tolerance=1e-6 / tol=1e-6 defaults: positive, below the grid resolution
default_tolerance == 1
\* tolerance = 0 ("Exact matching") of find_layer_intersections and apply_external
exact_tolerance == 0

-----------------------------------------------------------------------------
(* Generic helpers *)

Abs(n) == IF n < 0 THEN -n ELSE n

Min2(a, b) == IF a < b THEN a ELSE b

Max2(a, b) == IF a < b THEN b ELSE a

Last(s) == s[Len(s)]

Front(s) == SubSeq(s, 1, Len(s) - 1)

RECURSIVE Concat(_)
Concat(ss) == IF ss = <<>> THEN <<>> ELSE Head(ss) \o Concat(Tail(ss))

RECURSIVE SeqMin(_)
SeqMin(s) == IF Len(s) = 1 THEN s[1] ELSE Min2(s[1], SeqMin(Tail(s)))

RECURSIVE SeqMax(_)
SeqMax(s) == IF Len(s) = 1 THEN s[1] ELSE Max2(s[1], SeqMax(Tail(s)))

Range(s) == {s[i] : i \in DOMAIN s}

\* the orders in which the elements of a finite set can be listed
Orders(S) == {s \in [1..Cardinality(S) -> S] : Range(s) = S}

\* Optional values: None is <<>>, a value v is <<v>>
None == <<>>

Some(v) == <<v>>

\* Op applied to the value of v: the statement "x = v" followed by the statements
\* Op stands for, with v computed once
Bind(v, Op(_)) == CHOOSE r \in {Op(x) : x \in {v}} : TRUE

-----------------------------------------------------------------------------
(* Coordinate model *)

LineString(coords) == [multi |-> FALSE, parts |-> <<coords>>]

MultiLineString(parts) == [multi |-> TRUE, parts |-> parts]

\* parse_wkt: every "x y z" triple of the WKT text, in order, whatever part it is
\* in; an "x y" pair of a WKT without Z is read with Z 0 (float(match[2] or 0))
parse_wkt(wkt) ==
    Bind(Concat(wkt.parts), LAMBDA numbers :
        [i \in DOMAIN numbers |->
            <<numbers[i][1], numbers[i][2],
              IF Len(numbers[i]) = 3 THEN numbers[i][3] ELSE 0>>])

\* the f-string rebuild of update_z / insert_vertex_at_exact_point:
\* "MULTILINESTRING Z ((...))" when the old WKT has MULTI in it, else "LINESTRING Z (...)"
rebuild_wkt(geom, new_coords) == [multi |-> geom.multi, parts |-> <<new_coords>>]

-----------------------------------------------------------------------------
(* Segment geometry *)

\* z1 + t*(z2 - z1) for t = n/d (exact on the grid: d divides n*(z2 - z1))
Interpolate(z1, z2, n, d) ==
    IF d < 0 THEN z1 + ((-n) * (z2 - z1)) \div (-d)
             ELSE z1 + (n * (z2 - z1)) \div d

\* abs(d) < tolerance for an integer difference d
within_tolerance(d, tolerance) == tolerance > 0 /\ d = 0

point_on_segment(px, py, x1, y1, x2, y2, tolerance) ==
    LET dx == x2 - x1
        dy == y2 - y1
        dpx == px - x1
        dpy == py - y1
        len_sq == dx * dx + dy * dy
        \* t = t_num / len_sq
        t_num == dpx * dx + dpy * dy
        \* (px - closest_x) * len_sq and (py - closest_y) * len_sq
        dist_x == dpx * len_sq - t_num * dx
        dist_y == dpy * len_sq - t_num * dy
    IN  IF len_sq = 0
        THEN dpx = 0 /\ dpy = 0
        ELSE IF t_num < 0 \/ t_num > len_sq
             THEN FALSE
             ELSE dist_x = 0 /\ dist_y = 0

\* get_segment_parameter returns t = num / den; 0.0 for a degenerate segment
get_segment_parameter(px, py, x1, y1, x2, y2) ==
    LET dx == x2 - x1
        dy == y2 - y1
        len_sq == dx * dx + dy * dy
    IN  IF len_sq = 0
        THEN [num |-> 0, den |-> 1]
        ELSE [num |-> (px - x1) * dx + (py - y1) * dy, den |-> len_sq]

\* index of the first segment of coords the point lies on, 0 when there is none
RECURSIVE first_segment(_, _, _, _, _)
first_segment(coords, x, y, tolerance, i) ==
    IF i > Len(coords) - 1 THEN 0
    ELSE IF point_on_segment(x, y, coords[i][1], coords[i][2],
                             coords[i + 1][1], coords[i + 1][2], tolerance)
         THEN i
         ELSE first_segment(coords, x, y, tolerance, i + 1)

\* the Z get_z_at_exact_point_on_line interpolates on segment seg of coords
z_on_segment(coords, seg, exact_x, exact_y) ==
    Bind(get_segment_parameter(exact_x, exact_y, coords[seg][1], coords[seg][2],
                               coords[seg + 1][1], coords[seg + 1][2]),
         LAMBDA t : Interpolate(coords[seg][3], coords[seg + 1][3], t.num, t.den))

get_z_at_exact_point_on_line(geom, exact_x, exact_y, tolerance) ==
    Bind(parse_wkt(geom), LAMBDA coords :
        LET onVertex == {i \in DOMAIN coords :
                            /\ within_tolerance(coords[i][1] - exact_x, tolerance)
                            /\ within_tolerance(coords[i][2] - exact_y, tolerance)}
        IN  IF onVertex # {}
            THEN coords[CHOOSE i \in onVertex : \A j \in onVertex : i <= j][3]
            ELSE Bind(first_segment(coords, exact_x, exact_y, tolerance, 1), LAMBDA seg :
                     IF seg # 0 THEN z_on_segment(coords, seg, exact_x, exact_y)
                     ELSE 0))

\* the segment test shared by get_z and update_z: the parameter along the dominant
\* axis, the range test on t and the distance test; None when the point is not on
\* the segment, else the parameter t = num / den
segment_match(x, y, x1, y1, x2, y2) ==
    LET dx == x2 - x1
        dy == y2 - y1
        byX == Abs(dx) > Abs(dy)
        num == IF byX THEN x - x1 ELSE y - y1
        den == IF byX THEN dx ELSE dy
    IN  IF dx = 0 /\ dy = 0 THEN None
        ELSE IF num * den < 0 \/ num * den > den * den THEN None
        ELSE IF (x - x1) * den = num * dx /\ (y - y1) * den = num * dy
             THEN Some([num |-> num, den |-> den])
             ELSE None

RECURSIVE get_z_segments(_, _, _, _)
get_z_segments(coords, x, y, i) ==
    IF i > Len(coords) - 1 THEN None
    ELSE Bind(segment_match(x, y, coords[i][1], coords[i][2],
                            coords[i + 1][1], coords[i + 1][2]),
              LAMBDA m :
                  IF m # None
                  THEN Some(Interpolate(coords[i][3], coords[i + 1][3], m[1].num, m[1].den))
                  ELSE get_z_segments(coords, x, y, i + 1))

\* get_z: Some(z), or None when the point is on no vertex and no segment
get_z(geom, x, y) ==
    Bind(parse_wkt(geom), LAMBDA coords :
        LET exact == {i \in DOMAIN coords : coords[i][1] = x /\ coords[i][2] = y}
        IN  IF exact # {}
            THEN Some(coords[CHOOSE i \in exact : \A j \in exact : i <= j][3])
            ELSE get_z_segments(coords, x, y, 1))

\* Python truth value of a get_z result: None and 0.0 are false
truthy(z) == z # None /\ z[1] # 0

-----------------------------------------------------------------------------
(* Vertex mutator *)

vertex_exists(geom, x, y, tolerance) ==
    \E v \in Range(parse_wkt(geom)) :
        within_tolerance(v[1] - x, tolerance) /\ within_tolerance(v[2] - y, tolerance)

has_vertex_at(geom, x, y) ==
    \E v \in Range(parse_wkt(geom)) : v[1] = x /\ v[2] = y

\* the loop of insert_vertex_at_exact_point over segments i .. len-2
RECURSIVE insert_loop(_, _, _, _, _, _)
insert_loop(coords, exact_x, exact_y, z_value, tolerance, i) ==
    IF i > Len(coords) - 1 THEN <<>>
    ELSE <<coords[i]>>
         \o (IF point_on_segment(exact_x, exact_y, coords[i][1], coords[i][2],
                                 coords[i + 1][1], coords[i + 1][2], tolerance)
             THEN <<(<<exact_x, exact_y, z_value>>)>>
             ELSE <<>>)
         \o insert_loop(coords, exact_x, exact_y, z_value, tolerance, i + 1)

\* Some(new geometry), or None when no vertex was added
insert_vertex_at_exact_point(geom, exact_x, exact_y, z_value, tolerance) ==
    Bind(parse_wkt(geom), LAMBDA coords :
        Bind(insert_loop(coords, exact_x, exact_y, z_value, tolerance, 1)
                 \o <<Last(coords)>>,
             LAMBDA new_coords :
                 IF Len(new_coords) > Len(coords)
                 THEN Some(rebuild_wkt(geom, new_coords))
                 ELSE None))

\* the loop of update_z from vertex i on; updated is the flag of the code
RECURSIVE update_loop(_, _, _, _, _, _)
update_loop(coords, x, y, new_z, updated, i) ==
    IF i > Len(coords) THEN <<>>
    ELSE IF coords[i][1] = x /\ coords[i][2] = y
         THEN <<(<<coords[i][1], coords[i][2], new_z>>)>>
              \o update_loop(coords, x, y, new_z, TRUE, i + 1)
         ELSE Bind(/\ ~updated
                   /\ i < Len(coords)
                   /\ segment_match(x, y, coords[i][1], coords[i][2],
                                    coords[i + 1][1], coords[i + 1][2]) # None,
                   LAMBDA ins :
                       <<coords[i]>>
                       \o (IF ins THEN <<(<<x, y, new_z>>)>> ELSE <<>>)
                       \o update_loop(coords, x, y, new_z, ins \/ updated, i + 1))

update_z(geom, x, y, new_z) ==
    rebuild_wkt(geom, update_loop(parse_wkt(geom), x, y, new_z, FALSE, 1))

-----------------------------------------------------------------------------
(* The host geometry library (QgsGeometry.intersects / intersection) *)

\* the segments of a line: the consecutive vertex pairs of each part
segments(geom) ==
    UNION {{<<geom.parts[p][i], geom.parts[p][i + 1]>> :
               i \in 1..(Len(geom.parts[p]) - 1)} : p \in DOMAIN geom.parts}

\* The XY points two segments share.  Segments in general position meet in the one
\* point p1 + t*(p2 - p1) with t = t_num / rxs (a grid point in the network, so the
\* division is exact; where the point is not representable the library returns
\* the representable point next to it, here a grid point next to the crossing);
\* parallel or zero-length segments of the network never overlap along a stretch
\* and can only share end points.
segment_intersection(p1, p2, q1, q2) ==
    LET rx == p2[1] - p1[1]
        ry == p2[2] - p1[2]
        sx == q2[1] - q1[1]
        sy == q2[2] - q1[2]
        rxs == rx * sy - ry * sx
        t_num == (q1[1] - p1[1]) * sy - (q1[2] - p1[2]) * sx
        u_num == (q1[1] - p1[1]) * ry - (q1[2] - p1[2]) * rx
        inRange(n) == IF rxs > 0 THEN 0 <= n /\ n <= rxs ELSE rxs <= n /\ n <= 0
    IN  IF rxs # 0
        THEN IF inRange(t_num) /\ inRange(u_num)
             THEN {<<p1[1] + Interpolate(0, rx, t_num, rxs),
                     p1[2] + Interpolate(0, ry, t_num, rxs)>>}
             ELSE {}
        ELSE {<<p[1], p[2]>> : p \in {p \in {p1, p2} :
                  point_on_segment(p[1], p[2], q1[1], q1[2], q2[1], q2[2], 0)}}
             \cup
             {<<q[1], q[2]>> : q \in {q \in {q1, q2} :
                  point_on_segment(q[1], q[2], p1[1], p1[2], p2[1], p2[2], 0)}}

\* geom1.intersection(geom2): the points the two lines share
intersection(geom1, geom2) ==
    UNION {segment_intersection(s1[1], s1[2], s2[1], s2[2]) :
              s1 \in segments(geom1), s2 \in segments(geom2)}

intersects(geom1, geom2) == intersection(geom1, geom2) # {}

\* asPoint / asMultiPoint: the points of an intersection as a list
RECURSIVE asMultiPoint(_)
asMultiPoint(pts) ==
    IF pts = {} THEN <<>>
    ELSE Bind(CHOOSE p \in pts :
                  \A q \in pts : p[1] < q[1] \/ (p[1] = q[1] /\ p[2] <= q[2]),
              LAMBDA first : <<first>> \o asMultiPoint(pts \ {first}))

\* "if geom1.intersects(geom2)": the points of the intersection, none when the
\* geometries do not intersect
intersection_points(geom1, geom2) ==
    IF intersects(geom1, geom2)
    THEN asMultiPoint(intersection(geom1, geom2))
    ELSE <<>>

\* QgsWkbTypes.hasZ(layer.wkbType()): the geometries of the layer carry a Z
hasZ(layer) ==
    \A fid \in DOMAIN layer : \A p \in DOMAIN layer[fid].parts :
        \A i \in DOMAIN layer[fid].parts[p] : Len(layer[fid].parts[p][i]) = 3

\* the geometry without its Z values
dropZ(geom) ==
    [multi |-> geom.multi,
     parts |-> [p \in DOMAIN geom.parts |->
                   [i \in DOMAIN geom.parts[p] |->
                       <<geom.parts[p][i][1], geom.parts[p][i][2]>>]]]

\* layer.changeGeometry(fid, new_geom) with the commit that follows: the layer keeps
\* its geometry type, so a layer without Z stores the XY of the new geometry
changeGeometry(g, layer_id, fid, new_geom) ==
    [g EXCEPT ![layer_id][fid] = IF hasZ(g[layer_id]) THEN new_geom ELSE dropZ(new_geom)]

\* layer.getFeatures(): the feature ids of a layer, in id order
getFeatures(layer) == [i \in 1..Cardinality(DOMAIN layer) |->
                          CHOOSE f \in DOMAIN layer :
                              Cardinality({g \in DOMAIN layer : g < f}) = i - 1]

-----------------------------------------------------------------------------
(* Intersection detector *)

\* "if not self.vertex_exists(...): new_geom = self.insert_vertex_at_exact_point(...)":
\* Some(new geometry) when a vertex was added, else None
insert_missing_vertex(geom, x, y, z_value, tolerance) ==
    IF vertex_exists(geom, x, y, tolerance) THEN None
    ELSE insert_vertex_at_exact_point(geom, x, y, z_value, tolerance)

\* one point of the "for pt in points" loop: st holds the local geom1 and geom2
\* and whether a change was staged for each
crossing_step(st, x, y, tolerance) ==
    Bind(Min2(get_z_at_exact_point_on_line(st.geom1, x, y, default_tolerance),
              get_z_at_exact_point_on_line(st.geom2, x, y, default_tolerance)),
         LAMBDA z_min :
    Bind(insert_missing_vertex(st.geom1, x, y, z_min, tolerance), LAMBDA new_geom1 :
    Bind(insert_missing_vertex(st.geom2, x, y, z_min, tolerance), LAMBDA new_geom2 :
        [geom1 |-> IF new_geom1 # None THEN new_geom1[1] ELSE st.geom1,
         geom2 |-> IF new_geom2 # None THEN new_geom2[1] ELSE st.geom2,
         staged1 |-> st.staged1 \/ new_geom1 # None,
         staged2 |-> st.staged2 \/ new_geom2 # None])))

\* The "for pt in points" loop of detect_and_insert_intersections and
\* detect_intersections_between_layers, for points k.. of pts.
RECURSIVE crossing_loop(_, _, _, _)
crossing_loop(st, pts, k, tolerance) ==
    IF k > Len(pts) THEN st
    ELSE Bind(crossing_step(st, pts[k][1], pts[k][2], tolerance), LAMBDA next :
             crossing_loop(next, pts, k + 1, tolerance))

\* one pair check: geom1 is the (possibly updated) local geometry of the outer
\* feature, geom2 the geometry of the inner feature as listed before the scan
check_pair(geom1, geom2, tolerance) ==
    crossing_loop([geom1 |-> geom1, geom2 |-> geom2,
                   staged1 |-> FALSE, staged2 |-> FALSE],
                  intersection_points(geom1, geom2), 1, tolerance)

\* The inner loop over features2[j..] for the outer feature fid1.
\* changes1 / changes2: fid -> the last geometry staged for it (last write wins).
RECURSIVE inner_loop(_, _, _, _, _, _, _, _)
inner_loop(fid1, geom1, features2, layer2, j, changes1, changes2, tolerance) ==
    IF j > Len(features2) THEN [changes1 |-> changes1, changes2 |-> changes2]
    ELSE Bind(check_pair(geom1, layer2[features2[j]], tolerance), LAMBDA r :
             inner_loop(fid1, r.geom1, features2, layer2, j + 1,
                        IF r.staged1 THEN (fid1 :> r.geom1) @@ changes1 ELSE changes1,
                        IF r.staged2 THEN (features2[j] :> r.geom2) @@ changes2
                                     ELSE changes2,
                        tolerance))

\* detect_and_insert_intersections, STEP 1: the scan of all pairs i < j of one layer
RECURSIVE scan_layer(_, _, _, _, _)
scan_layer(layer, features, i, changes, tolerance) ==
    IF i > Len(features) THEN changes
    ELSE Bind(inner_loop(features[i], layer[features[i]], features, layer,
                         i + 1, <<>>, changes, tolerance),
              LAMBDA r : scan_layer(layer, features, i + 1,
                                    r.changes1 @@ r.changes2, tolerance))

\* the geometries of a layer after the staged changes are written
changeGeometries(layer, fid_to_geom) ==
    [fid \in DOMAIN layer |->
        IF fid \in DOMAIN fid_to_geom
        THEN IF hasZ(layer) THEN fid_to_geom[fid] ELSE dropZ(fid_to_geom[fid])
        ELSE layer[fid]]

\* detect_and_insert_intersections with the commit of its caller
detect_and_insert_intersections(layer, tolerance) ==
    Bind(scan_layer(layer, getFeatures(layer), 1, <<>>, tolerance),
         LAMBDA changes_to_apply :
             [layer |-> changeGeometries(layer, changes_to_apply),
              applied |-> Cardinality(DOMAIN changes_to_apply)])

\* detect_intersections_between_layers, STEP 1
RECURSIVE scan_layers(_, _, _, _, _, _, _)
scan_layers(layer1, layer2, features1, i, changes_layer1, changes_layer2, tolerance) ==
    IF i > Len(features1)
    THEN [changes1 |-> changes_layer1, changes2 |-> changes_layer2]
    ELSE Bind(inner_loop(features1[i], layer1[features1[i]], getFeatures(layer2),
                         layer2, 1, changes_layer1, changes_layer2, tolerance),
              LAMBDA r : scan_layers(layer1, layer2, features1, i + 1,
                                     r.changes1, r.changes2, tolerance))

detect_intersections_between_layers(layer1, layer2, tolerance) ==
    Bind(scan_layers(layer1, layer2, getFeatures(layer1), 1, <<>>, <<>>, tolerance),
         LAMBDA r :
             [layer1 |-> changeGeometries(layer1, r.changes1),
              layer2 |-> changeGeometries(layer2, r.changes2),
              total_applied |-> Cardinality(DOMAIN r.changes1)
                                    + Cardinality(DOMAIN r.changes2)])

-----------------------------------------------------------------------------
(* Node reconciler: detection *)

\* run_detection, phase 1, "Check intersections within each layer"
RECURSIVE within_layers(_, _, _, _)
within_layers(g, layers, k, tolerance) ==
    IF k > Len(layers) THEN g
    ELSE Bind([g EXCEPT ![layers[k]] =
                  detect_and_insert_intersections(g[layers[k]], tolerance).layer],
              LAMBDA next : within_layers(next, layers, k + 1, tolerance))

\* run_detection, phase 1, "Check intersections BETWEEN layers": pairs i < j
RECURSIVE between_layers(_, _, _, _, _)
between_layers(g, layers, i, j, tolerance) ==
    IF i > Len(layers) THEN g
    ELSE IF j > Len(layers) THEN between_layers(g, layers, i + 1, i + 2, tolerance)
    ELSE Bind(detect_intersections_between_layers(g[layers[i]], g[layers[j]], tolerance),
              LAMBDA r :
                  between_layers([g EXCEPT ![layers[i]] = r.layer1,
                                           ![layers[j]] = r.layer2],
                                 layers, i, j + 1, tolerance))

\* the vertices of one feature that enter the node index: abs(z) > 1e-10
feature_entries(g, layer_id, fid) ==
    Bind(parse_wkt(g[layer_id][fid]), LAMBDA coords :
        SelectSeq([i \in DOMAIN coords |->
                      [x |-> coords[i][1], y |-> coords[i][2],
                       layer_id |-> layer_id, fid |-> fid, z |-> coords[i][3]]],
                  LAMBDA e : e.z # 0))

layer_entries(g, layer_id) ==
    Bind(getFeatures(g[layer_id]), LAMBDA features :
        Concat([i \in DOMAIN features |-> feature_entries(g, layer_id, features[i])]))

\* the keys of a dict in insertion order
RECURSIVE dict_keys(_)
dict_keys(s) ==
    IF s = <<>> THEN <<>>
    ELSE <<Head(s)>> \o dict_keys(SelectSeq(Tail(s), LAMBDA k : k # Head(s)))

\* the node of the index at key k = (x, y): its entries with their Z range
node_at(all_entries, k) ==
    Bind(SelectSeq(all_entries, LAMBDA e : e.x = k[1] /\ e.y = k[2]), LAMBDA entries :
        [x |-> k[1], y |-> k[2],
         entries |-> [i \in DOMAIN entries |->
                         [layer_id |-> entries[i].layer_id,
                          fid |-> entries[i].fid, z |-> entries[i].z]],
         z_min |-> SeqMin([i \in DOMAIN entries |-> entries[i].z]),
         z_max |-> SeqMax([i \in DOMAIN entries |-> entries[i].z])])

\* "Find problems": the nodes with more than one entry and more than one distinct Z
find_problems(all_entries) ==
    Bind(dict_keys([i \in DOMAIN all_entries |-> <<all_entries[i].x, all_entries[i].y>>]),
         LAMBDA keys :
             SelectSeq([i \in DOMAIN keys |-> node_at(all_entries, keys[i])],
                       LAMBDA n :
                           /\ Len(n.entries) > 1
                           /\ Cardinality({n.entries[i].z : i \in DOMAIN n.entries}) > 1))

\* run_detection, phase 2, over the layers in the order given
z_analysis(g, layers) ==
    find_problems(Concat([k \in DOMAIN layers |-> layer_entries(g, layers[k])]))

\* run_detection past its input checks: the geometries after phase 1 and the problems
detection(g, layers, insert_intersections, tolerance) ==
    Bind(IF insert_intersections
         THEN between_layers(within_layers(g, layers, 1, tolerance),
                             layers, 1, 2, tolerance)
         ELSE g,
         LAMBDA g1 : [geoms |-> g1, problems |-> z_analysis(g1, layers)])

-----------------------------------------------------------------------------
(* Undo / history manager *)

\* the undo entry save_undo_state builds: every feature of every affected layer
\* as WKT (the timestamp is display text and is left out)
undo_entry(g, correction_type, affected_layers) ==
    [type |-> correction_type,
     layers |-> [k \in DOMAIN affected_layers |->
                    [layer_id |-> affected_layers[k],
                     features |-> g[affected_layers[k]]]]]

\* faulty variant of save_undo_state: above the limit it drops the entry just
\* pushed (pop() for pop(0)); C4_BoundedStack must tell it from the code
save_undo_state_drops_newest(stack, g, correction_type, affected_layers) ==
    Bind(Append(stack, undo_entry(g, correction_type, affected_layers)), LAMBDA pushed :
        IF Len(pushed) > max_undo_levels THEN Front(pushed) ELSE pushed)

\* the stack after save_undo_state: append, then drop the oldest above the limit
save_undo_state(stack, g, correction_type, affected_layers) ==
    Bind(Append(stack, undo_entry(g, correction_type, affected_layers)), LAMBDA pushed :
        IF Len(pushed) > max_undo_levels THEN Tail(pushed) ELSE pushed)

\* faulty variant of the restore loop: it ends at the first layer mapLayer does not
\* find (break for continue); C19_MissingLayerSkipped must tell it from the code
RECURSIVE restore_layers_until_missing(_, _, _)
restore_layers_until_missing(g, layer_states, k) ==
    IF k > Len(layer_states) THEN g
    ELSE IF layer_states[k].layer_id \notin DOMAIN g
         THEN g
         ELSE Bind([g EXCEPT ![layer_states[k].layer_id] =
                       [fid \in DOMAIN g[layer_states[k].layer_id] |->
                           IF fid \in DOMAIN layer_states[k].features
                           THEN layer_states[k].features[fid]
                           ELSE g[layer_states[k].layer_id][fid]]],
                   LAMBDA next : restore_layers_until_missing(next, layer_states, k + 1))

\* the restore loop of undo_last_correction over the layers k.. of the entry
RECURSIVE restore_layers(_, _, _)
restore_layers(g, layer_states, k) ==
    IF k > Len(layer_states) THEN g
    ELSE IF layer_states[k].layer_id \notin DOMAIN g
         THEN restore_layers(g, layer_states, k + 1)
         ELSE Bind([g EXCEPT ![layer_states[k].layer_id] =
                       [fid \in DOMAIN g[layer_states[k].layer_id] |->
                           IF fid \in DOMAIN layer_states[k].features
                           THEN layer_states[k].features[fid]
                           ELSE g[layer_states[k].layer_id][fid]]],
                   LAMBDA next : restore_layers(next, layer_states, k + 1))

\* faulty variant of undo_last_correction: the history entry is removed before the
\* stack is looked at; C5_NothingToUndo must tell it from the code
undo_last_correction_history_first(st) ==
    IF st.undo_stack = <<>>
    THEN [geoms |-> st.geoms, undo_stack |-> st.undo_stack,
          correction_history |-> IF st.correction_history # <<>>
                                 THEN Front(st.correction_history)
                                 ELSE st.correction_history,
          msg |-> "Nothing to Undo"]
    ELSE [geoms |-> restore_layers(st.geoms, Last(st.undo_stack).layers, 1),
          undo_stack |-> Front(st.undo_stack),
          correction_history |-> IF st.correction_history # <<>>
                                 THEN Front(st.correction_history)
                                 ELSE st.correction_history,
          msg |-> "Undo Complete"]

\* undo_last_correction on the state st = [geoms, undo_stack, correction_history]
undo_last_correction(st) ==
    IF st.undo_stack = <<>>
    THEN [geoms |-> st.geoms, undo_stack |-> st.undo_stack,
          correction_history |-> st.correction_history, msg |-> "Nothing to Undo"]
    ELSE [geoms |-> restore_layers(st.geoms, Last(st.undo_stack).layers, 1),
          undo_stack |-> Front(st.undo_stack),
          correction_history |-> IF st.correction_history # <<>>
                                 THEN Front(st.correction_history)
                                 ELSE st.correction_history,
          msg |-> "Undo Complete"]

-----------------------------------------------------------------------------
(* Node reconciler: internal correction *)

\* faulty variant of internal_target: the maximum for every node; C9_MinRule must
\* tell it from the code
internal_target_max(node) == node.z_max

\* "SMART Z SELECTION" of apply_internal
internal_target(node) ==
    IF node.z_min = 0 /\ node.z_max # 0 THEN node.z_max ELSE node.z_min

\* the layers named by the entries of the nodes that mapLayer still finds in the
\* project g, in order of first appearance
affected_layers_of(g, nodes) ==
    SelectSeq(dict_keys(Concat([n \in DOMAIN nodes |->
                                   [e \in DOMAIN nodes[n].entries |->
                                       nodes[n].entries[e].layer_id]])),
              LAMBDA layer_id : layer_id \in DOMAIN g)

\* one entry of a node: acc = [geoms, corrections]
correct_entry(acc, node, entry, target_z) ==
    IF entry.z # target_z /\ entry.layer_id \in DOMAIN acc.geoms
    THEN [geoms |-> changeGeometry(acc.geoms, entry.layer_id, entry.fid,
                                   update_z(acc.geoms[entry.layer_id][entry.fid],
                                            node.x, node.y, target_z)),
          corrections |-> Append(acc.corrections,
                             [layer_id |-> entry.layer_id,
                              x |-> node.x, y |-> node.y, fid |-> entry.fid,
                              z_old |-> entry.z, z_new |-> target_z])]
    ELSE acc

\* the loop over the entries e.. of one node
RECURSIVE correct_entries(_, _, _)
correct_entries(acc, node, e) ==
    IF e > Len(node.entries) THEN acc
    ELSE Bind(correct_entry(acc, node, node.entries[e], internal_target(node)),
              LAMBDA next : correct_entries(next, node, e + 1))

RECURSIVE correct_nodes(_, _, _)
correct_nodes(acc, nodes, idx) ==
    IF idx > Len(nodes) THEN acc
    ELSE Bind(correct_entries(acc, nodes[idx], 1),
              LAMBDA next : correct_nodes(next, nodes, idx + 1))

\* apply_internal past its "Run detection first" check
apply_internal(st) ==
    Bind(correct_nodes([geoms |-> st.geoms, corrections |-> <<>>], st.nodes_csv, 1),
         LAMBDA r :
             [geoms |-> r.geoms,
              undo_stack |-> save_undo_state(st.undo_stack, st.geoms, "internal",
                                             affected_layers_of(st.geoms, st.nodes_csv)),
              correction_history |-> Append(st.correction_history,
                                         [type |-> "internal",
                                          corrections |-> r.corrections,
                                          count |-> Len(r.corrections)]),
              msg |-> "Corrections Complete"])

-----------------------------------------------------------------------------
(* Node reconciler: external (cross-layer) correction *)

\* find_layer_intersections: the records for one pair of features
pair_intersections(g, layer1_id, layer2_id, fid1, fid2) ==
    Bind(intersection_points(g[layer1_id][fid1], g[layer2_id][fid2]), LAMBDA points :
        [k \in DOMAIN points |->
            [layer1_id |-> layer1_id, layer2_id |-> layer2_id,
             fid1 |-> fid1, fid2 |-> fid2,
             x |-> points[k][1], y |-> points[k][2],
             z1 |-> get_z_at_exact_point_on_line(g[layer1_id][fid1],
                                                 points[k][1], points[k][2],
                                                 exact_tolerance),
             z2 |-> get_z_at_exact_point_on_line(g[layer2_id][fid2],
                                                 points[k][1], points[k][2],
                                                 exact_tolerance)]])

find_layer_intersections(g, layer1_id, layer2_id) ==
    Bind(getFeatures(g[layer1_id]), LAMBDA features1 :
    Bind(getFeatures(g[layer2_id]), LAMBDA features2 :
        Concat([i \in DOMAIN features1 |->
            Concat([j \in DOMAIN features2 |->
                pair_intersections(g, layer1_id, layer2_id,
                                   features1[i], features2[j])])])))

\* "Check each pair of layers": pairs i < j of the selected layers
RECURSIVE all_layer_intersections(_, _, _, _)
all_layer_intersections(g, layers, i, j) ==
    IF i > Len(layers) THEN <<>>
    ELSE IF j > Len(layers) THEN all_layer_intersections(g, layers, i + 1, i + 2)
    ELSE find_layer_intersections(g, layers[i], layers[j])
         \o all_layer_intersections(g, layers, i, j + 1)

\* "SMART Z SELECTION" of apply_external
external_target(z1, z2) ==
    IF Min2(z1, z2) = 0 /\ Max2(z1, z2) # 0 THEN Max2(z1, z2) ELSE Min2(z1, z2)

\* "No vertex - INSERT one" of apply_external
insert_line(acc, layer_id, fid, x, y, target_z) ==
    Bind(insert_vertex_at_exact_point(acc.geoms[layer_id][fid], x, y, target_z,
                                      exact_tolerance),
         LAMBDA inserted :
             IF inserted # None
             THEN [geoms |-> changeGeometry(acc.geoms, layer_id, fid, inserted[1]),
                   corrections_made |-> acc.corrections_made + 1]
             ELSE acc)

\* "Process layer 1" / "Process layer 2": one line at one intersection;
\* acc = [geoms, corrections_made]
process_line(acc, layer_id, fid, x, y, z, target_z) ==
    IF has_vertex_at(acc.geoms[layer_id][fid], x, y)
    THEN IF z # target_z
         THEN [geoms |-> changeGeometry(acc.geoms, layer_id, fid,
                                        update_z(acc.geoms[layer_id][fid], x, y, target_z)),
               corrections_made |-> acc.corrections_made + 1]
         ELSE acc
    ELSE insert_line(acc, layer_id, fid, x, y, target_z)

\* both lines of one intersection
correct_intersection(acc, it, target_z) ==
    Bind(process_line(acc, it.layer1_id, it.fid1, it.x, it.y, it.z1, target_z),
         LAMBDA a1 : process_line(a1, it.layer2_id, it.fid2, it.x, it.y, it.z2, target_z))

RECURSIVE correct_intersections(_, _, _)
correct_intersections(acc, all_intersections, idx) ==
    IF idx > Len(all_intersections) THEN acc
    ELSE Bind(correct_intersection(acc, all_intersections[idx],
                                   external_target(all_intersections[idx].z1,
                                                   all_intersections[idx].z2)),
              LAMBDA next : correct_intersections(next, all_intersections, idx + 1))

\* apply_external past its layer check
external_corrections(st, layers) ==
    Bind(all_layer_intersections(st.geoms, layers, 1, 2), LAMBDA all_intersections :
        IF all_intersections = <<>>
        THEN [geoms |-> st.geoms, undo_stack |-> st.undo_stack,
              correction_history |-> st.correction_history,
              msg |-> "No Intersections"]
        ELSE Bind(correct_intersections([geoms |-> st.geoms, corrections_made |-> 0],
                                        all_intersections, 1),
                  LAMBDA r :
                      [geoms |-> r.geoms, undo_stack |-> st.undo_stack,
                       correction_history |-> Append(st.correction_history,
                                                  [type |-> "external",
                                                   corrections |-> all_intersections,
                                                   count |-> r.corrections_made]),
                       msg |-> "External Corrections Complete"]))

\* faulty variant of apply_external: the layer check lets one layer through
\* (< 1 for < 2); C10_ExternalNeedsTwoLayers must tell it from the code
apply_external_one_layer(st, layers) ==
    IF Len(layers) < 1
    THEN [geoms |-> st.geoms, undo_stack |-> st.undo_stack,
          correction_history |-> st.correction_history,
          msg |-> "Need Multiple Layers"]
    ELSE external_corrections(st, layers)

\* apply_external on st = [geoms, undo_stack, correction_history], the selected
\* layers in the order get_selected_layers lists them
apply_external(st, layers) ==
    IF Len(layers) < 2
    THEN [geoms |-> st.geoms, undo_stack |-> st.undo_stack,
          correction_history |-> st.correction_history,
          msg |-> "Need Multiple Layers"]
    ELSE external_corrections(st, layers)

-----------------------------------------------------------------------------
(* Node reconciler: contour correction *)

\* the contour reference file: one line (3,3,3) -> (4,4,3), which touches the
\* segment (4,2) -> (2,4) of 2/1 at its midpoint (3,3)
contour_layer == (1 :> LineString(<<(<<3, 3, 3>>), (<<4, 4, 3>>)>>))

\* the layer QgsVectorLayer(self.paths['contour'], "contour", "ogr") gives
contour_file(features) == [features |-> features, editable |-> FALSE]

\* "Find issues" of apply_contour for one feature against one contour feature
feature_issues(geom, cgeom, layer_id, fid) ==
    Bind(intersection_points(geom, cgeom), LAMBDA pts :
    Bind(SelectSeq([k \in DOMAIN pts |->
                       [x |-> pts[k][1], y |-> pts[k][2],
                        z_line |-> get_z(geom, pts[k][1], pts[k][2]),
                        z_cont |-> get_z(cgeom, pts[k][1], pts[k][2])]],
                   LAMBDA c : truthy(c.z_line) /\ truthy(c.z_cont)
                                  /\ c.z_line[1] # c.z_cont[1]),
         LAMBDA found :
             [k \in DOMAIN found |->
                 [layer_id |-> layer_id, fid |-> fid, x |-> found[k].x, y |-> found[k].y,
                  z_old |-> found[k].z_line[1], z_contour |-> found[k].z_cont[1]]]))

layer_issues(g, contour, layer_id) ==
    Bind(getFeatures(g[layer_id]), LAMBDA features :
    Bind(getFeatures(contour), LAMBDA cfeatures :
        Concat([i \in DOMAIN features |->
            Concat([j \in DOMAIN cfeatures |->
                feature_issues(g[layer_id][features[i]], contour[cfeatures[j]],
                               layer_id, features[i])])])))

\* "Apply corrections" of apply_contour for the issues idx.. of one layer
RECURSIVE correct_issues(_, _, _)
correct_issues(g, issues, idx) ==
    IF idx > Len(issues) THEN g
    ELSE Bind(changeGeometry(g, issues[idx].layer_id, issues[idx].fid,
                             update_z(g[issues[idx].layer_id][issues[idx].fid],
                                      issues[idx].x, issues[idx].y, issues[idx].z_contour)),
              LAMBDA next : correct_issues(next, issues, idx + 1))

\* the loop of apply_contour over the layers k..; acc = [geoms, all_corrections]
RECURSIVE contour_layers(_, _, _, _)
contour_layers(acc, contour, layers, k) ==
    IF k > Len(layers) THEN acc
    ELSE Bind(layer_issues(acc.geoms, contour, layers[k]), LAMBDA issues :
         Bind([geoms |-> correct_issues(acc.geoms, issues, 1),
               all_corrections |-> acc.all_corrections \o issues],
              LAMBDA next : contour_layers(next, contour, layers, k + 1)))

\* faulty variant of apply_contour: it puts the contour layer in edit state when
\* it corrects; C14_ContourReadOnly must tell it from the code
apply_contour_edits_reference(st, layers) ==
    Bind(contour_layers([geoms |-> st.geoms, all_corrections |-> <<>>],
                        st.contour.features, layers, 1),
         LAMBDA r :
             IF r.all_corrections # <<>>
             THEN [geoms |-> r.geoms, undo_stack |-> st.undo_stack,
                   correction_history |->
                       Append(st.correction_history,
                              [type |-> "contour", corrections |-> r.all_corrections,
                               count |-> Len(r.all_corrections)]),
                   contour |-> [st.contour EXCEPT !.editable = TRUE],
                   msg |-> "Fixed contour mismatches"]
             ELSE [geoms |-> r.geoms, undo_stack |-> st.undo_stack,
                   correction_history |-> st.correction_history,
                   contour |-> st.contour,
                   msg |-> "No contour corrections needed"])

\* apply_contour past its input checks, on st = [geoms, undo_stack,
\* correction_history, contour]: the contour layer is only read
apply_contour(st, layers) ==
    Bind(contour_layers([geoms |-> st.geoms, all_corrections |-> <<>>],
                        st.contour.features, layers, 1),
         LAMBDA r :
             IF r.all_corrections # <<>>
             THEN [geoms |-> r.geoms, undo_stack |-> st.undo_stack,
                   correction_history |->
                       Append(st.correction_history,
                              [type |-> "contour", corrections |-> r.all_corrections,
                               count |-> Len(r.all_corrections)]),
                   contour |-> st.contour,
                   msg |-> "Fixed contour mismatches"]
             ELSE [geoms |-> r.geoms, undo_stack |-> st.undo_stack,
                   correction_history |-> st.correction_history,
                   contour |-> st.contour,
                   msg |-> "No contour corrections needed"])

-----------------------------------------------------------------------------
(* The survey network *)

\* Layer 1 (LINESTRING Z), fid 1:       (0,2,4) -> (4,2,b)
\* Layer 2 (MULTILINESTRING Z), fid 1:  (4,2,g) -> (2,4,2) -> (2,0,2)
\* The lines share the vertex (4,2), the last vertex of 1/1 and the first of 2/1,
\* and cross at (2,2), where neither has a vertex.  b = 0 is the "missing data"
\* value at the shared vertex.
network(b, g) ==
    (1 :> (1 :> LineString(<<(<<0, 2, 4>>), (<<4, 2, b>>)>>)) @@
     2 :> (1 :> MultiLineString(<<(<<(<<4, 2, g>>), (<<2, 4, 2>>), (<<2, 0, 2>>)>>)>>)))

networks == {network(b, g) : b \in {0, 2, 4}, g \in {2, 4}}

LayerIds == {1, 2}

-----------------------------------------------------------------------------
(* State machine *)

no_run == [op |-> "none", msg |-> "Ready", before |-> None, layers |-> <<>>]

\* self.verify_results before the first verification, with export_btn disabled
no_report == [internal_issues |-> <<>>, contour_issues |-> <<>>,
              status |-> "none", export_enabled |-> FALSE]

\* what get_selected_layers can return: the layers selected in self.layer_list,
\* in the order selectedItems() lists them
Selections == UNION {Orders(S) : S \in SUBSET LayerIds}

Init ==
    /\ geoms \in networks
    /\ paths = [output |-> FALSE, contour |-> FALSE]
    /\ nodes_csv = <<>>
    /\ undo_stack = <<>>
    /\ correction_history = <<>>
    /\ last = no_run
    /\ contour_ref = contour_file(contour_layer)
    /\ detected_contour_issues = <<>>
    /\ verify_results = no_report

select_output ==
    /\ paths' = [paths EXCEPT !.output = TRUE]
    /\ UNCHANGED <<geoms, nodes_csv, undo_stack, correction_history, last, contour_ref,
                       detected_contour_issues, verify_results>>

select_contour ==
    /\ paths' = [paths EXCEPT !.contour = TRUE]
    /\ UNCHANGED <<geoms, nodes_csv, undo_stack, correction_history, last, contour_ref,
                       detected_contour_issues, verify_results>>

\* run_detection with one of the selections and the "detect intersections" box
\* checked or not
run_detection_on(selections) ==
    \E layers \in selections, insert_intersections \in BOOLEAN :
        IF layers = <<>>
        THEN /\ last' = [op |-> "run_detection", msg |-> "No Layer", before |-> None,
                          layers |-> layers]
             /\ UNCHANGED <<geoms, paths, nodes_csv, undo_stack, correction_history, contour_ref,
                       detected_contour_issues, verify_results>>
        ELSE IF ~paths.output
        THEN /\ last' = [op |-> "run_detection", msg |-> "No Output", before |-> None,
                          layers |-> layers]
             /\ UNCHANGED <<geoms, paths, nodes_csv, undo_stack, correction_history, contour_ref,
                       detected_contour_issues, verify_results>>
        ELSE IF \E k \in DOMAIN layers : ~hasZ(geoms[layers[k]])
        THEN /\ last' = [op |-> "run_detection", msg |-> "No Z", before |-> None,
                          layers |-> layers]
             /\ UNCHANGED <<geoms, paths, nodes_csv, undo_stack, correction_history, contour_ref,
                       detected_contour_issues, verify_results>>
        ELSE \E r \in {detection(geoms, layers, insert_intersections,
                                  intersection_tolerance)} :
                 /\ geoms' = r.geoms
                 /\ nodes_csv' = r.problems
                 /\ last' = [op |-> "run_detection",
                             msg |-> IF r.problems # <<>> THEN "Found problem nodes"
                                     ELSE "Perfect data",
                             before |-> None, layers |-> layers]
                 /\ verify_results' = IF r.problems # <<>> THEN verify_results
                                       ELSE [verify_results EXCEPT !.export_enabled = TRUE]
                 /\ UNCHANGED <<paths, undo_stack, correction_history, contour_ref,
                       detected_contour_issues>>

\* the corrections on record that are not internal ones
mixed(history) == Cardinality({i \in DOMAIN history : history[i].type # "internal"})

\* a correction that adds a record runs while fewer than max corrections are on
\* record, an external or contour one while fewer than MaxMixed of them are
may_record(history, grown, max) ==
    Len(grown) > Len(history) => Len(history) < max /\ mixed(history) < MaxMixed

ApplyInternalUpTo(max) ==
    IF nodes_csv = <<>>
    THEN /\ last' = [op |-> "apply_internal", msg |-> "No Data", before |-> None,
                      layers |-> <<>>]
         /\ UNCHANGED <<geoms, paths, nodes_csv, undo_stack, correction_history, contour_ref,
                       detected_contour_issues, verify_results>>
    ELSE /\ Len(correction_history) < max
         /\ \E r \in {apply_internal([geoms |-> geoms, nodes_csv |-> nodes_csv,
                                       undo_stack |-> undo_stack,
                                       correction_history |-> correction_history])} :
                /\ geoms' = r.geoms
                /\ undo_stack' = r.undo_stack
                /\ correction_history' = r.correction_history
                /\ last' = [op |-> "apply_internal", msg |-> r.msg, before |-> Some(geoms),
                            layers |-> <<>>]
         /\ UNCHANGED <<paths, nodes_csv, contour_ref,
                       detected_contour_issues, verify_results>>

ApplyExternalUpTo(selections, max) ==
    \E layers \in selections :
        \E r \in {apply_external([geoms |-> geoms, undo_stack |-> undo_stack,
                                  correction_history |-> correction_history], layers)} :
            /\ may_record(correction_history, r.correction_history, max)
            /\ geoms' = r.geoms
            /\ undo_stack' = r.undo_stack
            /\ correction_history' = r.correction_history
            /\ last' = [op |-> "apply_external", msg |-> r.msg,
                        before |-> IF r.msg = "External Corrections Complete"
                                   THEN Some(geoms) ELSE None,
                        layers |-> layers]
            /\ UNCHANGED <<paths, nodes_csv, contour_ref,
                       detected_contour_issues, verify_results>>

ApplyContourUpTo(selections, max) ==
    \E layers \in selections :
        IF layers = <<>>
        THEN /\ last' = [op |-> "apply_contour", msg |-> "No Layer", before |-> None,
                          layers |-> layers]
             /\ UNCHANGED <<geoms, paths, nodes_csv, undo_stack, correction_history, contour_ref,
                       detected_contour_issues, verify_results>>
        ELSE IF ~paths.contour
        THEN /\ last' = [op |-> "apply_contour", msg |-> "No Contour", before |-> None,
                          layers |-> layers]
             /\ UNCHANGED <<geoms, paths, nodes_csv, undo_stack, correction_history, contour_ref,
                       detected_contour_issues, verify_results>>
        ELSE \E r \in {apply_contour([geoms |-> geoms, undo_stack |-> undo_stack,
                                       correction_history |-> correction_history,
                                       contour |-> contour_ref], layers)} :
                 /\ may_record(correction_history, r.correction_history, max)
                 /\ geoms' = r.geoms
                 /\ contour_ref' = r.contour
                 /\ undo_stack' = r.undo_stack
                 /\ correction_history' = r.correction_history
                 /\ last' = [op |-> "apply_contour", msg |-> r.msg,
                             before |-> IF r.msg = "Fixed contour mismatches"
                                        THEN Some(geoms) ELSE None,
                             layers |-> layers]
                 /\ UNCHANGED <<paths, nodes_csv, detected_contour_issues, verify_results>>

run_detection == run_detection_on(Selections)

ApplyInternal == ApplyInternalUpTo(MaxHistory)

ApplyExternal == ApplyExternalUpTo(Selections, MaxHistory)

ApplyContour == ApplyContourUpTo(Selections, MaxHistory)

UndoLastCorrection ==
    \E r \in {undo_last_correction([geoms |-> geoms, undo_stack |-> undo_stack,
                                    correction_history |-> correction_history])} :
        /\ geoms' = r.geoms
        /\ undo_stack' = r.undo_stack
        /\ correction_history' = r.correction_history
        /\ last' = [op |-> "undo_last_correction", msg |-> r.msg, before |-> None,
                    layers |-> <<>>]
        /\ UNCHANGED <<paths, nodes_csv, contour_ref,
                       detected_contour_issues, verify_results>>

Next ==
    \/ select_output
    \/ select_contour
    \/ run_detection
    \/ ApplyInternal
    \/ ApplyExternal
    \/ ApplyContour
    \/ UndoLastCorrection

Spec == Init /\ [][Next]_vars

-----------------------------------------------------------------------------
(* Long runs of internal corrections, which fill the undo stack: one network,    *)
(* all layers selected and both paths set, external and contour corrections      *)
(* only as the first MaxMixed corrections, and internal corrections applied      *)
(* until MaxDeep corrections are on record.                                      *)

InitDeep ==
    /\ geoms = network(4, 2)
    /\ paths = [output |-> TRUE, contour |-> TRUE]
    /\ nodes_csv = <<>>
    /\ undo_stack = <<>>
    /\ correction_history = <<>>
    /\ last = no_run
    /\ contour_ref = contour_file(contour_layer)
    /\ detected_contour_issues = <<>>
    /\ verify_results = no_report

DeepRunDetection == run_detection_on(Orders(LayerIds))

DeepApplyInternal == ApplyInternalUpTo(MaxDeep)

DeepApplyExternal == ApplyExternalUpTo(Orders(LayerIds), MaxMixed)

DeepApplyContour == ApplyContourUpTo(Orders(LayerIds), MaxMixed)

NextDeep ==
    \/ DeepRunDetection
    \/ DeepApplyInternal
    \/ DeepApplyExternal
    \/ DeepApplyContour
    \/ UndoLastCorrection

SpecDeep == InitDeep /\ [][NextDeep]_vars

-----------------------------------------------------------------------------
(* Properties *)

\* the vertex occurrences at (x, y) in the layers: <<layer id, fid, index>>
occurrences(g, layers, x, y) ==
    UNION {UNION {{<<l, f, i>> : i \in {k \in DOMAIN parse_wkt(g[l][f]) :
                                          /\ parse_wkt(g[l][f])[k][1] = x
                                          /\ parse_wkt(g[l][f])[k][2] = y}}
                  : f \in DOMAIN g[l]}
           : l \in Range(layers)}

\* the Z values of the vertex occurrences at (x, y) in the layers
z_values(g, layers, x, y) ==
    {parse_wkt(g[o[1]][o[2]])[o[3]][3] : o \in occurrences(g, layers, x, y)}

\* the XY locations where the layers have a vertex
locations(g, layers) ==
    UNION {UNION {{<<parse_wkt(g[l][f])[i][1], parse_wkt(g[l][f])[i][2]>> :
                      i \in DOMAIN parse_wkt(g[l][f])}
                  : f \in DOMAIN g[l]}
           : l \in Range(layers)}

SetMin(S) == CHOOSE m \in S : \A z \in S : m <= z

SetMax(S) == CHOOSE m \in S : \A z \in S : z <= m

\* the step is a correction or a detection that ran to its end
completed(report) ==
    \/ report.op = "run_detection" /\ report.msg \in {"Found problem nodes", "Perfect data"}
    \/ report.op = "apply_internal" /\ report.msg = "Corrections Complete"
    \/ report.op = "apply_external" /\ report.msg = "External Corrections Complete"
    \/ report.op = "apply_contour"
       /\ report.msg \in {"Fixed contour mismatches", "No contour corrections needed"}

\* the step pushed one snapshot: on top of the old stack, or of the old stack
\* without its oldest entry
pushed_snapshot ==
    /\ undo_stack' # <<>>
    /\ \/ Front(undo_stack') = undo_stack
       \/ undo_stack # <<>> /\ Front(undo_stack') = Tail(undo_stack)

\* the snapshot holds every feature of layer l as it is in g
snapshot_holds(snapshot, g, l) ==
    \E k \in DOMAIN snapshot.layers :
        /\ snapshot.layers[k].layer_id = l
        /\ snapshot.layers[k].features = g[l]

\* C1: an undo issued right after a correction (internal, external or contour)
\* that changed the layers restores every feature geometry to the WKT it had
\* before that correction.
C1_UndoRoundTrip ==
    [][(last.before # None /\ last'.op = "undo_last_correction" /\ UndoLastCorrection)
          => geoms' = last.before[1]]_vars

\* C1, the case the code gets right: an internal correction changed a layer and
\* the undo right after it has put every geometry back.
C1_InternalUndone ==
    /\ last.op = "undo_last_correction"
    /\ last.msg = "Undo Complete"
    /\ undo_stack = <<>>
    /\ correction_history = <<>>
    /\ geoms \in networks
    /\ nodes_csv # <<>>

\* C2: every step of apply_internal, apply_external, apply_contour or
\* run_detection that changes a layer's geometry pushes a snapshot that holds
\* every feature of every changed layer as it was before the step.
C2_SnapshotBeforeChange ==
    [][(geoms' # geoms /\ ~UndoLastCorrection)
          => /\ pushed_snapshot
             /\ \A l \in LayerIds :
                   geoms'[l] # geoms[l] => snapshot_holds(Last(undo_stack'), geoms, l)]_vars

\* C3: with fewer than max_undo_levels corrections on record, the history entry
\* an undo removes is the last one and was recorded by the correction whose
\* snapshot the undo restores: there is such an entry, and it has the
\* snapshot's correction type.
C3_Lockstep ==
    [][(/\ last'.op = "undo_last_correction"
        /\ last'.msg = "Undo Complete"
        /\ Len(correction_history) < max_undo_levels
        /\ UndoLastCorrection)
          => /\ correction_history # <<>>
             /\ Last(correction_history).type = Last(undo_stack).type
             /\ correction_history' = Front(correction_history)]_vars

\* C4: the undo stack never holds more than max_undo_levels snapshots, and an
\* internal correction that pushes onto a full stack leaves the stack full, with
\* the old snapshots but the oldest in their order and, on top, the snapshot of
\* the layers as they were before the correction.
C4_BoundedStack ==
    /\ [](Len(undo_stack) <= max_undo_levels)
    /\ [][(/\ Len(undo_stack) = max_undo_levels
           /\ last'.op = "apply_internal"
           /\ last'.msg = "Corrections Complete"
           /\ DeepApplyInternal)
             => /\ Len(undo_stack') = max_undo_levels
                /\ Front(undo_stack') = Tail(undo_stack)
                /\ Last(undo_stack').type = "internal"
                /\ \A k \in DOMAIN Last(undo_stack').layers :
                      Last(undo_stack').layers[k].features
                          = geoms[Last(undo_stack').layers[k].layer_id]]_vars

\* C4: more internal corrections are outstanding than the stack holds, so the
\* last one pushed onto a full stack.
C4_Evicted ==
    /\ last.op = "apply_internal"
    /\ last.msg = "Corrections Complete"
    /\ Len(undo_stack) = max_undo_levels
    /\ Len(correction_history) > max_undo_levels
    /\ \A i \in DOMAIN correction_history : correction_history[i].type = "internal"

\* C5: an undo requested while the undo stack is empty reports "Nothing to Undo"
\* and changes no layer geometry, nor the undo stack, nor the correction history.
C5_NothingToUndo ==
    [][(undo_stack = <<>> /\ last'.op = "undo_last_correction" /\ UndoLastCorrection)
          => /\ last'.msg = "Nothing to Undo"
             /\ UNCHANGED <<geoms, undo_stack, correction_history>>]_vars

\* C5: an undo was refused on an empty stack while a correction was on record.
C5_RefusedWithHistory ==
    /\ last.op = "undo_last_correction"
    /\ last.msg = "Nothing to Undo"
    /\ undo_stack = <<>>
    /\ correction_history # <<>>

\* C6: when apply_internal is run right after a detection that ran to its end,
\* every XY location with two or more vertex occurrences in the detection's
\* layers carries one Z value afterwards.
C6_NodeConvergence ==
    [][(/\ last.op = "run_detection"
        /\ completed(last)
        /\ last'.op = "apply_internal"
        /\ ApplyInternal)
          => \A xy \in locations(geoms', last.layers) :
                Cardinality(occurrences(geoms', last.layers, xy[1], xy[2])) >= 2
                    => Cardinality(z_values(geoms', last.layers, xy[1], xy[2])) = 1]_vars

\* C7: an apply_internal run right after a completed apply_internal records a
\* correction count of 0 and leaves every feature geometry as it was.
C7_Idempotence ==
    [][(/\ last.op = "apply_internal"
        /\ last.msg = "Corrections Complete"
        /\ last'.op = "apply_internal"
        /\ ApplyInternal)
          => /\ geoms' = geoms
             /\ correction_history' # <<>>
             /\ Last(correction_history').count = 0]_vars

\* C8: when apply_internal is run right after a detection that ran to its end,
\* every XY location of the detection's layers whose occurrences have minimum Z 0
\* and a nonzero maximum has all its occurrences at that maximum afterwards.
C8_SmartZero ==
    [][(/\ last.op = "run_detection"
        /\ completed(last)
        /\ last'.op = "apply_internal"
        /\ ApplyInternal)
          => \A xy \in locations(geoms, last.layers) :
                LET zs == z_values(geoms, last.layers, xy[1], xy[2])
                IN  (/\ Cardinality(occurrences(geoms, last.layers, xy[1], xy[2])) >= 2
                     /\ SetMin(zs) = 0
                     /\ SetMax(zs) # 0)
                        => z_values(geoms', last.layers, xy[1], xy[2]) = {SetMax(zs)}]_vars

\* the Z values of the vertices of one feature at (x, y)
feature_z_values(geom, x, y) ==
    {c[3] : c \in {c \in Range(parse_wkt(geom)) : c[1] = x /\ c[2] = y}}

\* the vertices of the geometry that lie at none of the nodes' locations
elsewhere(geom, nodes) ==
    SelectSeq(parse_wkt(geom),
              LAMBDA c : \A n \in DOMAIN nodes : ~(c[1] = nodes[n].x /\ c[2] = nodes[n].y))

C10_ExternalNeedsTwoLayers ==
    [][(last'.op = "apply_external" /\ Len(last'.layers) < 2 /\ ApplyExternal)
          => /\ last'.msg = "Need Multiple Layers"
             /\ UNCHANGED <<geoms, undo_stack, correction_history>>]_vars

\* C10: apply_external was refused with one layer selected.
C10_RefusedOneLayer ==
    /\ last.op = "apply_external"
    /\ last.msg = "Need Multiple Layers"
    /\ Len(last.layers) = 1

-----------------------------------------------------------------------------
(* Three layers that meet in one point: layers 1, 2 and 3 hold one line each,   *)
(* all through (2,2).  Line 1/1 and line 3/1 have no vertex there, line 2/1     *)
(* has one.  The contour reference touches 3/1 at (3,1) and no other line.      *)
(* Layer 3 is a layer with Z or, in the second network, a layer without Z.      *)

\* Layer 1, fid 1: (0,2,a) -> (4,2,a)
\* Layer 2, fid 1: (2,0,b) -> (2,2,b) -> (2,4,b)
\* Layer 3, fid 1: (0,4,c) -> (4,0,c)
crossing(a, b, c) ==
    (1 :> (1 :> LineString(<<(<<0, 2, a>>), (<<4, 2, a>>)>>)) @@
     2 :> (1 :> LineString(<<(<<2, 0, b>>), (<<2, 2, b>>), (<<2, 4, b>>)>>)) @@
     3 :> (1 :> LineString(<<(<<0, 4, c>>), (<<4, 0, c>>)>>)))

crossings == {crossing(a, b, c) : a \in {2, 4}, b \in {0, 4}, c \in {0, 2, 6}}

\* the same lines with layer 3 loaded from a file without Z: LINESTRING (0 4, 4 0)
flat_crossing(a, b) ==
    [crossing(a, b, 0) EXCEPT ![3] = (1 :> LineString(<<(<<0, 4>>), (<<4, 0>>)>>))]

flat_crossings == {flat_crossing(a, b) : a \in {2, 4}, b \in {0, 4}}

\* the contour reference file: one line (3,0,3) -> (3,1,3), which ends on the
\* segment (0,4) -> (4,0) of 3/1
cross_contour == (1 :> LineString(<<(<<3, 0, 3>>), (<<3, 1, 3>>)>>))

CrossLayerIds == {1, 2, 3}

CrossSelections == UNION {Orders(S) : S \in SUBSET CrossLayerIds}

InitCross ==
    /\ geoms \in crossings
    /\ paths = [output |-> TRUE, contour |-> TRUE]
    /\ nodes_csv = <<>>
    /\ undo_stack = <<>>
    /\ correction_history = <<>>
    /\ last = no_run
    /\ contour_ref = contour_file(cross_contour)
    /\ detected_contour_issues = <<>>
    /\ verify_results = no_report

CrossApplyExternal == ApplyExternalUpTo(CrossSelections, MaxMixed)

CrossApplyContour == ApplyContourUpTo(CrossSelections, MaxMixed)

NextCross ==
    \/ CrossApplyExternal
    \/ CrossApplyContour

SpecCross == InitCross /\ [][NextCross]_vars

\* the selections tried on the network with the layer without Z
FlatSelections == {<<1, 2>>, <<3>>, <<1, 3>>, <<3, 2>>, <<1, 2, 3>>, <<3, 2, 1>>}

FlatRunDetection == run_detection_on(FlatSelections)

FlatApplyInternal == ApplyInternalUpTo(MaxMixed)

FlatApplyExternal == ApplyExternalUpTo(FlatSelections, MaxMixed)

FlatApplyContour == ApplyContourUpTo(FlatSelections, MaxMixed)

NextFlat ==
    \/ FlatRunDetection
    \/ FlatApplyInternal
    \/ FlatApplyExternal
    \/ FlatApplyContour

InitFlat ==
    /\ geoms \in flat_crossings
    /\ paths = [output |-> TRUE, contour |-> TRUE]
    /\ nodes_csv = <<>>
    /\ undo_stack = <<>>
    /\ correction_history = <<>>
    /\ last = no_run
    /\ contour_ref = contour_file(cross_contour)
    /\ detected_contour_issues = <<>>
    /\ verify_results = no_report

SpecFlat == InitFlat /\ [][NextFlat]_vars

\* the Z a line has at a point it passes through: the Z of its vertex there, or
\* the Z interpolated along its segment
z_at(geom, x, y) == get_z_at_exact_point_on_line(geom, x, y, exact_tolerance)

\* the Z the external rule gives two lines that meet with Z z1 and z2
claimed_z(z1, z2) ==
    IF Min2(z1, z2) = 0 /\ Max2(z1, z2) # 0 THEN Max2(z1, z2) ELSE Min2(z1, z2)

\* the pairs of lines of two different layers of the selection: <<l1, f1, l2, f2>>
line_pairs(g, layers) ==
    UNION {UNION {{<<l1, f1, l2, f2>> : f1 \in DOMAIN g[l1], f2 \in DOMAIN g[l2]}
                  : l2 \in Range(layers) \ {l1}}
           : l1 \in Range(layers)}

\* the XY points where lines of different layers of the selection intersect
layer_crossings(g, layers) ==
    UNION {intersection(g[p[1]][p[2]], g[p[3]][p[4]]) : p \in line_pairs(g, layers)}

\* the lines of the selection that pass through (x, y): <<layer id, fid>>
lines_through(g, layers, x, y) ==
    UNION {{<<l, f>> : f \in {f \in DOMAIN g[l] :
                                \E seg \in segments(g[l][f]) :
                                    point_on_segment(x, y, seg[1][1], seg[1][2],
                                                     seg[2][1], seg[2][2], 0)}}
           : l \in Range(layers)}

\* the Z values a line carries at (x, y): those of its vertices there, or the
\* interpolated Z when it has no vertex there
carried_z(geom, x, y) ==
    IF has_vertex_at(geom, x, y) THEN feature_z_values(geom, x, y)
    ELSE {z_at(geom, x, y)}

\* the step is an external correction pass over the three-layer network that ran
\* to its end
external_pass ==
    /\ last'.op = "apply_external"
    /\ last'.msg = "External Corrections Complete"
    /\ CrossApplyExternal

\* C11: after a completed apply_external pass, for every point where a line of one
\* selected layer meets a line of another with Z z1 and z2 before the pass, both
\* lines have a vertex at that XY and every vertex they have there has Z
\* min(z1, z2), or max(z1, z2) when the minimum is 0 and the maximum is not.
C11_ExternalTarget ==
    [][external_pass
          => \A p \in line_pairs(geoms, last'.layers) :
                \A xy \in intersection(geoms[p[1]][p[2]], geoms[p[3]][p[4]]) :
                    LET target == claimed_z(z_at(geoms[p[1]][p[2]], xy[1], xy[2]),
                                            z_at(geoms[p[3]][p[4]], xy[1], xy[2]))
                    IN  /\ feature_z_values(geoms'[p[1]][p[2]], xy[1], xy[2]) = {target}
                        /\ feature_z_values(geoms'[p[3]][p[4]], xy[1], xy[2]) = {target}]_vars

\* C11, the case the code gets right: a pass over two layers whose lines had Z 4
\* and Z 2 at (2,2), one with a vertex there and one without, has left both with
\* a vertex (2,2,2).
C11_TwoLinesCorrected ==
    /\ last.op = "apply_external"
    /\ last.msg = "External Corrections Complete"
    /\ last.layers = <<2, 3>>
    /\ last.before # None
    /\ z_at(last.before[1][2][1], 2, 2) = 4
    /\ z_at(last.before[1][3][1], 2, 2) = 2
    /\ ~has_vertex_at(last.before[1][3][1], 2, 2)
    /\ feature_z_values(geoms[2][1], 2, 2) = {2}
    /\ feature_z_values(geoms[3][1], 2, 2) = {2}

\* C12: after a completed apply_external pass over two or more selected layers,
\* at every XY point where lines of different selected layers intersect, all the
\* lines of the selection through that point carry one and the same Z there.
C12_OneZPerCrossing ==
    [][external_pass
          => \A xy \in layer_crossings(geoms, last'.layers) :
                Cardinality(UNION {carried_z(geoms'[lf[1]][lf[2]], xy[1], xy[2]) :
                                      lf \in lines_through(geoms', last'.layers,
                                                           xy[1], xy[2])}) = 1]_vars

-----------------------------------------------------------------------------
(* Contour detection and final verification *)

\* the mismatches detect_contour_issues collects: every selected layer against
\* the contour features, with no layer changed in between
contour_mismatches(g, layers, contour) ==
    Concat([k \in DOMAIN layers |-> layer_issues(g, contour, layers[k])])

\* CHECK 1 of run_verification: the (x, y) keys of the node index of one layer
\* whose entries (the vertices with abs(z) > 1e-10) hold more than one Z
internal_issues(g, layer_id) ==
    Bind(layer_entries(g, layer_id), LAMBDA entries :
        SelectSeq([i \in DOMAIN dict_keys([j \in DOMAIN entries |->
                                              <<entries[j].x, entries[j].y>>]) |->
                      Bind(dict_keys([j \in DOMAIN entries |->
                                         <<entries[j].x, entries[j].y>>])[i],
                           LAMBDA key :
                               [x |-> key[1], y |-> key[2],
                                z_values |-> {e.z : e \in {e \in Range(entries) :
                                                  e.x = key[1] /\ e.y = key[2]}}])],
                  LAMBDA node : Cardinality(node.z_values) > 1))

\* the report of a run_verification that declares success once one list of issues
\* is empty
final_result_internal_only(internal, contour_issues, export_btn) ==
    [internal_issues |-> internal,
     contour_issues |-> contour_issues,
     status |-> IF Len(internal) = 0 THEN "success" ELSE "error",
     export_enabled |-> IF Len(internal) = 0 THEN TRUE ELSE export_btn]

\* FINAL RESULT of run_verification for its two lists of issues: the status it
\* shows, and export_btn, which it enables on success and leaves alone otherwise
final_result(internal, contour_issues, export_btn) ==
    [internal_issues |-> internal,
     contour_issues |-> contour_issues,
     status |-> IF Len(internal) + Len(contour_issues) = 0 THEN "success" ELSE "error",
     export_enabled |-> IF Len(internal) + Len(contour_issues) = 0 THEN TRUE
                        ELSE export_btn]

\* run_verification past its layer check: layer is get_layer(), the first of the
\* selected layers; CHECK 2 runs when a contour file is set
run_verification(g, layer_id, contour_path, contour, export_btn) ==
    final_result(internal_issues(g, layer_id),
                 IF contour_path THEN layer_issues(g, contour.features, layer_id)
                 ELSE <<>>,
                 export_btn)

detect_contour_issues_on(selections) ==
    \E layers \in selections :
        IF layers = <<>>
        THEN /\ last' = [op |-> "detect_contour_issues", msg |-> "No Layer",
                          before |-> None, layers |-> layers]
             /\ UNCHANGED <<geoms, paths, nodes_csv, undo_stack, correction_history,
                            contour_ref, detected_contour_issues, verify_results>>
        ELSE IF ~paths.contour
        THEN /\ last' = [op |-> "detect_contour_issues", msg |-> "No Contour",
                          before |-> None, layers |-> layers]
             /\ UNCHANGED <<geoms, paths, nodes_csv, undo_stack, correction_history,
                            contour_ref, detected_contour_issues, verify_results>>
        ELSE \E all_issues \in {contour_mismatches(geoms, layers, contour_ref.features)} :
                 /\ detected_contour_issues' = all_issues
                 /\ last' = [op |-> "detect_contour_issues",
                             msg |-> IF all_issues # <<>> THEN "Found contour mismatches"
                                     ELSE "No contour mismatches found",
                             before |-> None, layers |-> layers]
                 /\ UNCHANGED <<geoms, paths, nodes_csv, undo_stack, correction_history,
                                contour_ref, verify_results>>

run_verification_on(selections) ==
    \E layers \in selections :
        IF layers = <<>>
        THEN /\ last' = [op |-> "run_verification", msg |-> "No Layer",
                          before |-> None, layers |-> layers]
             /\ UNCHANGED <<geoms, paths, nodes_csv, undo_stack, correction_history,
                            contour_ref, detected_contour_issues, verify_results>>
        ELSE \E report \in {run_verification(geoms, layers[1], paths.contour,
                                             contour_ref,
                                             verify_results.export_enabled)} :
                 /\ verify_results' = report
                 /\ last' = [op |-> "run_verification",
                             msg |-> IF report.status = "success"
                                     THEN "VERIFICATION PASSED"
                                     ELSE "VERIFICATION FAILED",
                             before |-> None, layers |-> layers]
                 /\ UNCHANGED <<geoms, paths, nodes_csv, undo_stack, correction_history,
                                contour_ref, detected_contour_issues>>

\* The survey network with a second line in layer 1:
\* Layer 1, fid 2: (4,2,h) -> (4,0,h), which starts at the shared vertex (4,2)
survey(b, g, h) ==
    [network(b, g) EXCEPT ![1] =
        (1 :> network(b, g)[1][1] @@ 2 :> LineString(<<(<<4, 2, h>>), (<<4, 0, h>>)>>))]

surveys == {survey(b, g, h) : b \in {0, 2, 4}, g \in {2, 4}, h \in {2, 4}}

\* a contour reference file with Z 0: the line of contour_layer at height 0
zero_contour == (1 :> LineString(<<(<<3, 3, 0>>), (<<4, 4, 0>>)>>))

InitVerify ==
    /\ geoms \in surveys
    /\ paths = [output |-> TRUE, contour |-> FALSE]
    /\ nodes_csv = <<>>
    /\ undo_stack = <<>>
    /\ correction_history = <<>>
    /\ last = no_run
    /\ contour_ref \in {contour_file(contour_layer), contour_file(zero_contour)}
    /\ detected_contour_issues = <<>>
    /\ verify_results = no_report

DetectContourIssues == detect_contour_issues_on(Selections)

VerifyApplyContour == ApplyContourUpTo(Selections, MaxMixed)

RunVerification == run_verification_on(Selections)

NextVerify ==
    \/ select_contour
    \/ DetectContourIssues
    \/ VerifyApplyContour
    \/ RunVerification

SpecVerify == InitVerify /\ [][NextVerify]_vars

\* the step is a contour correction that got past its input checks
contour_pass ==
    /\ last'.op = "apply_contour"
    /\ last'.msg \in {"Fixed contour mismatches", "No contour corrections needed"}
    /\ VerifyApplyContour

\* C13: after apply_contour, at every point where a line of a selected layer
\* meets a contour line with a Z other than the contour's, the line carries
\* exactly the contour's Z, whatever the two Z values were (0 included).
C13_ContourOverride ==
    [][contour_pass
          => \A l \in Range(last'.layers) : \A f \in DOMAIN geoms[l] :
                \A c \in DOMAIN contour_ref.features :
                    \A xy \in intersection(geoms[l][f], contour_ref.features[c]) :
                        z_at(geoms[l][f], xy[1], xy[2])
                            # z_at(contour_ref.features[c], xy[1], xy[2])
                        => carried_z(geoms'[l][f], xy[1], xy[2])
                               = {z_at(contour_ref.features[c], xy[1], xy[2])}]_vars

\* C13, the case the code gets right: line 2/1 had Z 2 where it meets the contour
\* of Z 3 at (3,3), and the contour correction has given it a vertex (3,3,3).
C13_SetToContour ==
    /\ last.op = "apply_contour"
    /\ last.msg = "Fixed contour mismatches"
    /\ last.before # None
    /\ z_at(last.before[1][2][1], 3, 3) = 2
    /\ z_at(contour_ref.features[1], 3, 3) = 3
    /\ feature_z_values(geoms[2][1], 3, 3) = {3}

\* C14: no step of detect_contour_issues, apply_contour or run_verification (nor
\* any other step) changes the contour reference layer: its feature geometries
\* stay as they are and it is never put in edit state.
C14_ContourReadOnly ==
    [][contour_ref' = contour_ref /\ ~contour_ref'.editable]_vars

\* C14: the three operations have all used the contour file: a detection found
\* mismatches, a contour correction fixed them and the verification that
\* followed ran its contour check, with the contour layer as it was loaded.
C14_ContourUsed ==
    /\ last.op = "run_verification"
    /\ paths.contour
    /\ verify_results.status # "none"
    /\ detected_contour_issues # <<>>
    /\ correction_history # <<>>
    /\ Last(correction_history).type = "contour"
    /\ contour_ref = contour_file(contour_layer)

\* C15: a step that changes the geometry of a feature of any layer is a step of
\* one of the apply operations (or of the undo): no detection pass changes a
\* layer.
C15_DetectionReadOnly ==
    [][geoms' # geoms
          => last'.op \in {"apply_internal", "apply_external", "apply_contour",
                           "undo_last_correction"}]_vars

\* C15, the case the code gets right: a detection without vertex insertion has
\* reported problem nodes and the layers are as they were loaded.
C15_DryRun ==
    /\ last.op = "run_detection"
    /\ last.msg = "Found problem nodes"
    /\ nodes_csv # <<>>
    /\ correction_history = <<>>
    /\ geoms \in networks

\* the step is a verification that got past its layer check
verification_pass ==
    /\ last'.op = "run_verification"
    /\ last'.msg # "No Layer"
    /\ RunVerification

\* C16: a verification reports the two lists of residual issues it computed on
\* the first selected layer; it shows the success status, announces
\* "VERIFICATION PASSED" and enables the export exactly when both lists are
\* empty; with any residual it shows the error status, announces
\* "VERIFICATION FAILED" and leaves the export button as it was.
C16_SuccessOnlyWhenClean ==
    [][verification_pass
          => LET internal == internal_issues(geoms, last'.layers[1])
                 residual == IF paths.contour
                             THEN layer_issues(geoms, contour_ref.features,
                                               last'.layers[1])
                             ELSE <<>>
                 clean    == Len(internal) = 0 /\ Len(residual) = 0
             IN  /\ verify_results'.internal_issues = internal
                 /\ verify_results'.contour_issues = residual
                 /\ verify_results'.status = (IF clean THEN "success" ELSE "error")
                 /\ last'.msg = (IF clean THEN "VERIFICATION PASSED"
                                 ELSE "VERIFICATION FAILED")
                 /\ verify_results'.export_enabled
                        = (clean \/ verify_results.export_enabled)]_vars

\* C16: a verification found no internal mismatch but a residual contour
\* mismatch, and reported failure without having enabled the export.
C16_FailedOnContourOnly ==
    /\ last.op = "run_verification"
    /\ last.msg = "VERIFICATION FAILED"
    /\ verify_results.status = "error"
    /\ verify_results.internal_issues = <<>>
    /\ verify_results.contour_issues # <<>>
    /\ ~verify_results.export_enabled

\* the (x, y) locations of a sequence of node records
reported_at(records) == {<<records[i].x, records[i].y>> : i \in DOMAIN records}

\* C17: the mismatched nodes a verification reports are the problem nodes the Z
\* analysis of run_detection finds on the same state of all the selected layers,
\* so a verification that finds no internal mismatch leaves no node of the
\* selected layers with more than one Z.
C17_VerifierAgreesWithDetection ==
    [][verification_pass
          => reported_at(verify_results'.internal_issues)
                 = reported_at(z_analysis(geoms, last'.layers))]_vars

\* C17, the case the code gets right: with one layer selected the verification
\* has reported the very nodes the Z analysis finds in that layer.
C17_OneLayerVerified ==
    /\ last.op = "run_verification"
    /\ Len(last.layers) = 1
    /\ verify_results.internal_issues # <<>>
    /\ reported_at(verify_results.internal_issues)
           = reported_at(z_analysis(geoms, last.layers))

\* C18: no step of run_detection, apply_internal, apply_external or apply_contour
\* changes a feature geometry of a layer that carries no Z coordinates, and a
\* step of one of them on a selection with such a layer changes no layer at all.
C18_FlatLayerUntouched ==
    [][last'.op \in {"run_detection", "apply_internal", "apply_external",
                     "apply_contour"}
          => /\ \A l \in DOMAIN geoms : ~hasZ(geoms[l]) => geoms'[l] = geoms[l]
             /\ (\E l \in Range(last'.layers) : ~hasZ(geoms[l])) => geoms' = geoms]_vars

\* C18, the case the code gets right: a detection over a selection with the
\* layer without Z has been refused and the layers are as they were loaded.
C18_DetectionRefused ==
    /\ last.op = "run_detection"
    /\ last.msg = "No Z"
    /\ 3 \in Range(last.layers)
    /\ ~hasZ(geoms[3])
    /\ geoms \in flat_crossings

-----------------------------------------------------------------------------
(* Undo with layers removed from the project *)

\* The layers of geoms are the layers QgsProject.instance().mapLayer finds. The
\* user removes layer_id from the project and the list of layers is reloaded.
remove_layer ==
    \E layer_id \in DOMAIN geoms :
        /\ geoms' = [l \in DOMAIN geoms \ {layer_id} |-> geoms[l]]
        /\ last' = [op |-> "remove_layer", msg |-> "Ready", before |-> None,
                    layers |-> <<layer_id>>]
        /\ UNCHANGED <<paths, nodes_csv, undo_stack, correction_history, contour_ref,
                       detected_contour_issues, verify_results>>

\* the selections of the layers that are in the project
RegistryRunDetection ==
    run_detection_on(UNION {Orders(S) : S \in SUBSET DOMAIN geoms})

RegistryApplyInternal == ApplyInternalUpTo(MaxMixed)

\* undo_last_correction, with the layers before it and the layer ids of the
\* snapshot it pops kept on record
RegistryUndo ==
    \E r \in {undo_last_correction([geoms |-> geoms, undo_stack |-> undo_stack,
                                    correction_history |-> correction_history])} :
        /\ geoms' = r.geoms
        /\ undo_stack' = r.undo_stack
        /\ correction_history' = r.correction_history
        /\ last' = [op |-> "undo_last_correction", msg |-> r.msg,
                    before |-> Some(geoms),
                    layers |-> IF undo_stack = <<>> THEN <<>>
                               ELSE [k \in DOMAIN Last(undo_stack).layers |->
                                        Last(undo_stack).layers[k].layer_id]]
        /\ UNCHANGED <<paths, nodes_csv, contour_ref,
                       detected_contour_issues, verify_results>>

NextRegistry ==
    \/ RegistryRunDetection
    \/ RegistryApplyInternal
    \/ remove_layer
    \/ RegistryUndo

InitRegistry ==
    /\ geoms \in networks
    /\ paths = [output |-> TRUE, contour |-> FALSE]
    /\ nodes_csv = <<>>
    /\ undo_stack = <<>>
    /\ correction_history = <<>>
    /\ last = no_run
    /\ contour_ref = contour_file(contour_layer)
    /\ detected_contour_issues = <<>>
    /\ verify_results = no_report

SpecRegistry == InitRegistry /\ [][NextRegistry]_vars

\* C19: an undo that pops a snapshot completes ("Undo Complete") and consumes the
\* snapshot; it skips the layers of the snapshot that are no longer in the
\* project, gives every feature of every other layer of the snapshot the
\* geometry stored for it, and leaves the layers outside the snapshot alone.
C19_MissingLayerSkipped ==
    [][(undo_stack # <<>> /\ last'.op = "undo_last_correction" /\ RegistryUndo)
          => LET layer_states == Last(undo_stack).layers
                 named == {layer_states[k].layer_id : k \in DOMAIN layer_states}
             IN  /\ last'.msg = "Undo Complete"
                 /\ undo_stack' = Front(undo_stack)
                 /\ DOMAIN geoms' = DOMAIN geoms
                 /\ \A k \in DOMAIN layer_states :
                        layer_states[k].layer_id \in DOMAIN geoms
                        => geoms'[layer_states[k].layer_id] = layer_states[k].features
                 /\ \A l \in DOMAIN geoms \ named : geoms'[l] = geoms[l]]_vars

\* C19: the popped snapshot named layer 1, which had been removed from the
\* project, and then layer 2; the undo has completed, the stack is empty and
\* layer 2, which the correction had changed, has its stored geometry again.
C19_RestoredPastMissing ==
    /\ last.op = "undo_last_correction"
    /\ last.msg = "Undo Complete"
    /\ last.layers = <<1, 2>>
    /\ DOMAIN geoms = {2}
    /\ undo_stack = <<>>
    /\ geoms[2] # last.before[1][2]
    /\ geoms[2] = network(2, 4)[2]

-----------------------------------------------------------------------------
(* update_z on its own *)

\* the XY courses of the lines update_z is applied to, none with a repeated point
courses ==
    {<<(<<0, 2>>), (<<4, 2>>)>>,
     <<(<<0, 2>>), (<<2, 2>>), (<<4, 2>>)>>,
     <<(<<4, 2>>), (<<2, 4>>), (<<2, 0>>)>>}

\* the lines over a course, each vertex with a Z of 2 or 4
lines_over(course) ==
    {[i \in DOMAIN course |-> <<course[i][1], course[i][2], zs[i]>>] :
        zs \in [DOMAIN course -> {2, 4}]}

update_lines ==
    UNION {{LineString(coords), MultiLineString(<<coords>>)} :
              coords \in UNION {lines_over(course) : course \in courses}}

\* the points update_z is called for: vertices, points inside a segment, points
\* off the line
update_points == {<<0, 2>>, <<2, 2>>, <<4, 2>>, <<2, 4>>, <<2, 0>>, <<3, 3>>, <<0, 0>>}

InitUpdate ==
    /\ geoms \in {(1 :> (1 :> line)) : line \in update_lines}
    /\ paths = [output |-> FALSE, contour |-> FALSE]
    /\ nodes_csv = <<>>
    /\ undo_stack = <<>>
    /\ correction_history = <<>>
    /\ last = no_run
    /\ contour_ref = contour_file(contour_layer)
    /\ detected_contour_issues = <<>>
    /\ verify_results = no_report

\* feature 1/1 gets update_z(geom, x, y, new_z) for its geometry
UpdateZ ==
    \E xy \in update_points, new_z \in {0, 2, 6} :
        /\ Len(parse_wkt(geoms[1][1])) < MaxVertices
        /\ geoms' = (1 :> (1 :> update_z(geoms[1][1], xy[1], xy[2], new_z)))
        /\ last' = [op |-> "update_z", msg |-> "Ready", before |-> Some(geoms),
                    layers |-> <<1>>, x |-> xy[1], y |-> xy[2], new_z |-> new_z]
        /\ UNCHANGED <<paths, nodes_csv, undo_stack, correction_history, contour_ref,
                       detected_contour_issues, verify_results>>

NextUpdate == UpdateZ

SpecUpdate == InitUpdate /\ [][NextUpdate]_vars

\* C20: when update_z is called for an (x, y) that is the XY of a vertex of the
\* line, the result has the vertices of the line, as many and in the same order,
\* with the Z of the vertices at (x, y) replaced by new_z and every other vertex
\* as it was, whichever position the matched vertex has.
C20_OnlyTheVertexZ ==
    [][(/\ last'.op = "update_z"
        /\ UpdateZ
        /\ has_vertex_at(geoms[1][1], last'.x, last'.y))
          => LET coords     == parse_wkt(geoms[1][1])
                 new_coords == parse_wkt(geoms'[1][1])
             IN  /\ Len(new_coords) = Len(coords)
                 /\ \A i \in DOMAIN coords :
                        new_coords[i]
                            = IF coords[i][1] = last'.x /\ coords[i][2] = last'.y
                              THEN <<coords[i][1], coords[i][2], last'.new_z>>
                              ELSE coords[i]]_vars

\* C20, the case the code gets right: update_z was called for the XY of the
\* first vertex of a three-vertex line with another Z, and the line has its
\* three vertices, the first with the new Z and the others as they were.
C20_FirstVertexReplaced ==
    /\ last.op = "update_z"
    /\ Len(parse_wkt(last.before[1][1][1])) = 3
    /\ parse_wkt(last.before[1][1][1])[1][1] = last.x
    /\ parse_wkt(last.before[1][1][1])[1][2] = last.y
    /\ parse_wkt(last.before[1][1][1])[1][3] # last.new_z
    /\ parse_wkt(geoms[1][1])
           = [parse_wkt(last.before[1][1][1]) EXCEPT ![1][3] = last.new_z]

-----------------------------------------------------------------------------
(* Corrections on layers edited since the detection *)

\* The layers are live layers of the project: between a detection and a
\* correction the user drags the vertex of feature 1/1 at (4,2) to (4,4) in the
\* map editor, so that the line no longer passes through (4,2).
edit_vertex ==
    \E i \in DOMAIN parse_wkt(geoms[1][1]) :
        /\ parse_wkt(geoms[1][1])[i][1] = 4
        /\ parse_wkt(geoms[1][1])[i][2] = 2
        /\ geoms' = [geoms EXCEPT ![1][1] =
                        rebuild_wkt(@, [parse_wkt(@) EXCEPT ![i] = <<4, 4, @[3]>>])]
        /\ last' = [op |-> "edit_vertex", msg |-> "Ready", before |-> None,
                    layers |-> <<1>>]
        /\ UNCHANGED <<paths, nodes_csv, undo_stack, correction_history, contour_ref,
                       detected_contour_issues, verify_results>>

StaleRunDetection == run_detection_on(Selections)

StaleApplyInternal == ApplyInternalUpTo(MaxMixed)

NextStale ==
    \/ StaleRunDetection
    \/ edit_vertex
    \/ StaleApplyInternal

InitStale ==
    /\ geoms \in networks
    /\ paths = [output |-> TRUE, contour |-> FALSE]
    /\ nodes_csv = <<>>
    /\ undo_stack = <<>>
    /\ correction_history = <<>>
    /\ last = no_run
    /\ contour_ref = contour_file(contour_layer)
    /\ detected_contour_issues = <<>>
    /\ verify_results = no_report

SpecStale == InitStale /\ [][NextStale]_vars

\* update_z has a vertex or a segment of the line for the point (x, y)
update_z_finds(geom, x, y) ==
    \/ has_vertex_at(geom, x, y)
    \/ \E i \in 1..(Len(parse_wkt(geom)) - 1) :
           segment_match(x, y, parse_wkt(geom)[i][1], parse_wkt(geom)[i][2],
                         parse_wkt(geom)[i + 1][1], parse_wkt(geom)[i + 1][2]) # None

\* C21: every occurrence a completed apply_internal logs and counts as a
\* correction is one for which update_z found a vertex or a segment of the
\* feature at the node's (x, y): an occurrence update_z could not place is not
\* recorded as a correction.
C21_FailureNotCounted ==
    [][(/\ last'.op = "apply_internal"
        /\ last'.msg = "Corrections Complete"
        /\ StaleApplyInternal)
          => LET entry == Last(correction_history')
             IN  /\ entry.count = Len(entry.corrections)
                 /\ \A c \in Range(entry.corrections) :
                        update_z_finds(geoms[c.layer_id][c.fid], c.x, c.y)]_vars

\* C21, the case the code gets right: after the vertex of 1/1 had been dragged
\* away, a correction has logged only occurrences update_z could place, that of
\* feature 2/1 among them.
C21_PlacedOccurrenceLogged ==
    /\ last.op = "apply_internal"
    /\ last.msg = "Corrections Complete"
    /\ ~has_vertex_at(last.before[1][1][1], 4, 2)
    /\ Last(correction_history).corrections # <<>>
    /\ \A c \in Range(Last(correction_history).corrections) :
           c.layer_id = 2 /\ update_z_finds(last.before[1][c.layer_id][c.fid], c.x, c.y)

-----------------------------------------------------------------------------
(* Intersection detection within one layer *)

\* Three lines of one layer: the line (2,0) -> (2,4) crosses (0,2) -> (4,2) at
\* (2,2) and (0,3) -> (4,3) at (2,3); the two horizontal lines do not meet.
grid_lines(a, b, c) ==
    <<LineString(<<(<<0, 2, a>>), (<<4, 2, a>>)>>),
      LineString(<<(<<2, 0, b>>), (<<2, 4, b>>)>>),
      LineString(<<(<<0, 3, c>>), (<<4, 3, c>>)>>)>>

\* the layer with the three lines stored under the feature ids 1, 2, 3 in any order
grids ==
    {(1 :> [fid \in 1..3 |-> grid_lines(a, b, c)[order[fid]]]) :
        a \in {2, 4}, b \in {0, 4}, c \in {2, 6}, order \in Orders(1..3)}

GridSelections == {<<>>, <<1>>}

GridRunDetection == run_detection_on(GridSelections)

GridApplyInternal == ApplyInternalUpTo(MaxMixed)

NextGrid ==
    \/ GridRunDetection
    \/ GridApplyInternal
    \/ UndoLastCorrection

InitGrid ==
    /\ geoms \in grids
    /\ paths = [output |-> TRUE, contour |-> FALSE]
    /\ nodes_csv = <<>>
    /\ undo_stack = <<>>
    /\ correction_history = <<>>
    /\ last = no_run
    /\ contour_ref = contour_file(contour_layer)
    /\ detected_contour_issues = <<>>
    /\ verify_results = no_report

SpecGrid == InitGrid /\ [][NextGrid]_vars

\* the step is a detection that inserted vertices
inserting_detection ==
    /\ last'.op = "run_detection"
    /\ geoms' # geoms
    /\ GridRunDetection

\* C22: after a detection that inserted vertices in a layer, every feature of
\* the layer has a vertex at every point where it crossed another feature of
\* the layer, also when it crosses several other features.
C22_EveryCrossingKept ==
    [][inserting_detection
          => \A f1 \in DOMAIN geoms[1] : \A f2 \in DOMAIN geoms[1] \ {f1} :
                \A xy \in intersection(geoms[1][f1], geoms[1][f2]) :
                    has_vertex_at(geoms'[1][f1], xy[1], xy[2])]_vars

\* C22, the case the code gets right: the line that crosses the two others is
\* the first feature of the layer, and after the detection it has a vertex at
\* both crossings and each of the other lines at its own.
C22_FirstLineKeepsBoth ==
    /\ last.op = "run_detection"
    /\ has_vertex_at(geoms[1][1], 2, 2)
    /\ has_vertex_at(geoms[1][1], 2, 3)
    /\ \E f \in {2, 3} : has_vertex_at(geoms[1][f], 2, 2)
    /\ \E f \in {2, 3} : has_vertex_at(geoms[1][f], 2, 3)

-----------------------------------------------------------------------------
(* insert_vertex_at_exact_point and get_z_at_exact_point_on_line on their own *)

\* the XY courses of the lines the two functions are applied to: a segment, a
\* line with an interior vertex, a bent line, and a line that crosses itself at
\* (2,2)
point_courses ==
    {<<(<<0, 2>>), (<<4, 2>>)>>,
     <<(<<0, 2>>), (<<2, 2>>), (<<4, 2>>)>>,
     <<(<<4, 2>>), (<<2, 4>>), (<<2, 0>>)>>,
     <<(<<0, 0>>), (<<4, 4>>), (<<4, 0>>), (<<0, 4>>)>>}

point_lines ==
    UNION {{LineString(coords), MultiLineString(<<coords>>)} :
              coords \in UNION {lines_over(course) : course \in point_courses}}

\* the points the functions are called for: on a segment, on a vertex, on two
\* segments, off the line
exact_points == {<<1, 2>>, <<2, 2>>, <<4, 2>>, <<3, 3>>, <<1, 0>>}

\* the tolerances of the callers: 0 (apply_external) and a positive one
tolerances == {exact_tolerance, intersection_tolerance}

InitPoint ==
    /\ geoms \in {(1 :> (1 :> line)) : line \in point_lines}
    /\ paths = [output |-> FALSE, contour |-> FALSE]
    /\ nodes_csv = <<>>
    /\ undo_stack = <<>>
    /\ correction_history = <<>>
    /\ last = no_run
    /\ contour_ref = contour_file(contour_layer)
    /\ detected_contour_issues = <<>>
    /\ verify_results = no_report

\* feature 1/1 gets the geometry insert_vertex_at_exact_point returns, if any
InsertVertex ==
    \E xy \in exact_points, z_value \in {0, 6}, tolerance \in tolerances :
        \E result \in {insert_vertex_at_exact_point(geoms[1][1], xy[1], xy[2],
                                                    z_value, tolerance)} :
            /\ Len(parse_wkt(geoms[1][1])) <= MaxVertices
            /\ geoms' = IF result # None THEN (1 :> (1 :> result[1])) ELSE geoms
            /\ last' = [op |-> "insert_vertex_at_exact_point", msg |-> "Ready",
                        before |-> Some(geoms), layers |-> <<1>>,
                        x |-> xy[1], y |-> xy[2], z_value |-> z_value,
                        tolerance |-> tolerance, result |-> result]
            /\ UNCHANGED <<paths, nodes_csv, undo_stack, correction_history,
                           contour_ref, detected_contour_issues, verify_results>>

\* the Z get_z_at_exact_point_on_line returns for feature 1/1
ReadZ ==
    \E xy \in exact_points, tolerance \in tolerances :
        /\ last' = [op |-> "get_z_at_exact_point_on_line", msg |-> "Ready",
                    before |-> Some(geoms), layers |-> <<1>>,
                    x |-> xy[1], y |-> xy[2], z_value |-> 0,
                    tolerance |-> tolerance,
                    result |-> get_z_at_exact_point_on_line(geoms[1][1], xy[1], xy[2],
                                                            tolerance)]
        /\ UNCHANGED <<geoms, paths, nodes_csv, undo_stack, correction_history,
                       contour_ref, detected_contour_issues, verify_results>>

NextPoint ==
    \/ InsertVertex
    \/ ReadZ

SpecPoint == InitPoint /\ [][NextPoint]_vars

\* the point of the call lies on segment i of coords under point_on_segment
on_segment(coords, i, x, y, tolerance) ==
    point_on_segment(x, y, coords[i][1], coords[i][2],
                     coords[i + 1][1], coords[i + 1][2], tolerance)

\* C23: a geometry insert_vertex_at_exact_point returns is the vertex sequence
\* of the line with the one vertex (x, y, z) added between the two end points
\* of a segment the point lies on: one vertex more, every other vertex as it
\* was and where it was.
C23_OneVertexAdded ==
    [][(/\ last'.op = "insert_vertex_at_exact_point"
        /\ last'.result # None
        /\ InsertVertex)
          => LET coords     == parse_wkt(geoms[1][1])
                 new_coords == parse_wkt(last'.result[1])
             IN  \E i \in 1..(Len(coords) - 1) :
                     /\ on_segment(coords, i, last'.x, last'.y, last'.tolerance)
                     /\ new_coords = SubSeq(coords, 1, i)
                                       \o <<(<<last'.x, last'.y, last'.z_value>>)>>
                                       \o SubSeq(coords, i + 1, Len(coords))]_vars

\* C23, the case the code gets right: the point (1,2) lay inside the one
\* segment of a two-vertex line, which now has the new vertex between its ends.
C23_InsertedInSegment ==
    /\ last.op = "insert_vertex_at_exact_point"
    /\ last.result # None
    /\ last.x = 1 /\ last.y = 2
    /\ Len(parse_wkt(last.before[1][1][1])) = 2
    /\ parse_wkt(geoms[1][1])
           = <<parse_wkt(last.before[1][1][1])[1], (<<1, 2, last.z_value>>),
               parse_wkt(last.before[1][1][1])[2]>>

-----------------------------------------------------------------------------
(* External correction at crossings that are not representable points *)

\* Two layers of one line each.  The lines of layer 1 run from (0,0) to (2,3) or
\* to (2,2), those of layer 2 from (0,3) to (2,0), from (0,1) to (2,1) or from
\* (0,2) to (2,0).  Only (0,0)-(2,2) and (0,2)-(2,0) cross in a grid point,
\* (1,1); the other crossings are returned as the grid point next to them, which
\* is not on both lines.
rounded_crossing(p, q, a, b) ==
    (1 :> (1 :> LineString(<<(<<0, 0, a>>), (<<2, p, a>>)>>)) @@
     2 :> (1 :> LineString(<<(<<0, q[1], b>>), (<<2, q[2], b>>)>>)))

rounded_crossings ==
    {rounded_crossing(p, q, a, b) :
        p \in {2, 3}, q \in {<<3, 0>>, <<1, 1>>, <<2, 0>>}, a \in {2, 4}, b \in {0, 4}}

RoundApplyExternal == ApplyExternalUpTo(Selections, MaxMixed)

NextRound ==
    \/ RoundApplyExternal
    \/ UndoLastCorrection

InitRound ==
    /\ geoms \in rounded_crossings
    /\ paths = [output |-> TRUE, contour |-> FALSE]
    /\ nodes_csv = <<>>
    /\ undo_stack = <<>>
    /\ correction_history = <<>>
    /\ last = no_run
    /\ contour_ref = contour_file(contour_layer)
    /\ detected_contour_issues = <<>>
    /\ verify_results = no_report

SpecRound == InitRound /\ [][NextRound]_vars

\* the step is an external correction that found intersections
rounded_pass ==
    /\ last'.op = "apply_external"
    /\ last'.msg = "External Corrections Complete"
    /\ RoundApplyExternal

\* C24: an external correction that reports its completion has left no
\* intersection unresolved: at every intersection point it recorded, both lines
\* have a vertex afterwards, so no insertion that returned None was dropped
\* without a report.
C24_NoInsertionDropped ==
    [][rounded_pass
          => \A it \in Range(all_layer_intersections(geoms, last'.layers, 1, 2)) :
                /\ has_vertex_at(geoms'[it.layer1_id][it.fid1], it.x, it.y)
                /\ has_vertex_at(geoms'[it.layer2_id][it.fid2], it.x, it.y)]_vars

\* C24, the case the code gets right: the lines (0,0)-(2,2) and (0,2)-(2,0)
\* cross in the grid point (1,1), and the external correction has inserted a
\* vertex there in both.
C24_BothInserted ==
    /\ last.op = "apply_external"
    /\ last.msg = "External Corrections Complete"
    /\ ~has_vertex_at(last.before[1][1][1], 1, 1)
    /\ ~has_vertex_at(last.before[1][2][1], 1, 1)
    /\ has_vertex_at(geoms[1][1], 1, 1)
    /\ has_vertex_at(geoms[2][1], 1, 1)
    /\ Last(correction_history).count = 2

\* C25: under the smart-zero rule a vertex a detection inserts in a feature at
\* its crossing with another feature carries Z 0 only if both lines had Z 0
\* there: where one of them had another Z, that Z is used.
C25_DetectionSmartZero ==
    [][inserting_detection
          => \A f1 \in DOMAIN geoms[1] : \A f2 \in DOMAIN geoms[1] \ {f1} :
                \A xy \in intersection(geoms[1][f1], geoms[1][f2]) :
                    (/\ ~has_vertex_at(geoms[1][f1], xy[1], xy[2])
                     /\ 0 \in feature_z_values(geoms'[1][f1], xy[1], xy[2]))
                    => /\ z_at(geoms[1][f1], xy[1], xy[2]) = 0
                       /\ z_at(geoms[1][f2], xy[1], xy[2]) = 0]_vars

\* C25, the case the code gets right: a line of Z 4 crossed a line of Z 2 at
\* (2,2), and the detection has inserted a vertex of Z 2 there in both.
C25_MinInserted ==
    /\ last.op = "run_detection"
    /\ \E f1 \in DOMAIN geoms[1] : \E f2 \in DOMAIN geoms[1] \ {f1} :
           /\ parse_wkt(geoms[1][f1]) = <<(<<0, 2, 2>>), (<<2, 2, 2>>), (<<4, 2, 2>>)>>
           /\ parse_wkt(geoms[1][f2])[1] = <<2, 0, 4>>
           /\ feature_z_values(geoms[1][f2], 2, 2) = {2}

\* the point of the last call lies on no vertex and on no segment of the line
\* the call was given
off_the_line ==
    Bind(parse_wkt(last.before[1][1][1]), LAMBDA coords :
        /\ \A i \in DOMAIN coords :
              ~(/\ within_tolerance(coords[i][1] - last.x, last.tolerance)
                /\ within_tolerance(coords[i][2] - last.y, last.tolerance))
        /\ \A i \in 1..(Len(coords) - 1) :
              ~on_segment(coords, i, last.x, last.y, last.tolerance))

\* C26: for a point that lies on no vertex and on no segment of the line,
\* get_z_at_exact_point_on_line returns a not-found result that is no number,
\* so that no caller can take it for a Z.
C26_NotFoundIsNoNumber ==
    (last.op = "get_z_at_exact_point_on_line" /\ off_the_line)
        => last.result \notin Int

\* C26, the case the code gets right: the Z of a point inside a segment is read
\* from the line
C26_ZReadOnSegment ==
    /\ last.op = "get_z_at_exact_point_on_line"
    /\ ~off_the_line
    /\ last.result # 0

-----------------------------------------------------------------------------
(* Edit sessions: which layers are in edit state when a handler returns *)

\* In this world the record of the last run also carries the edit state of the
\* project's layers: was_editable, the layers that were in edit state
\* (isEditable) when the handler started, and editable, the layers in edit
\* state when it returned.  geoms is what getFeatures shows: the committed
\* features of a layer overlaid with its edit buffer.

\* the layers whose features differ between g and changed
changed_layers(g, changed) == {layer_id \in DOMAIN g : changed[layer_id] # g[layer_id]}

\* the edit state after the intersection phase of run_detection: a layer with
\* changes to apply is put in edit state and committed (within a layer, when at
\* least one change was applied)
detection_editable(g, changed, editable) == editable \ changed_layers(g, changed)

\* layers_to_edit of apply_internal: the layers of the entries to correct
layers_to_edit(g, nodes) ==
    {layer_id \in DOMAIN g :
        \E n \in DOMAIN nodes : \E e \in DOMAIN nodes[n].entries :
            /\ nodes[n].entries[e].layer_id = layer_id
            /\ nodes[n].entries[e].z # internal_target(nodes[n])}

\* the edit state after apply_internal: every layer of layers_to_edit is
\* committed, whether startEditing found it in edit state or not
internal_editable(g, nodes, editable) == editable \ layers_to_edit(g, nodes)

\* layers_to_commit of apply_external: the layers of the intersections that
\* were not in edit state when the loop reached them
layers_to_commit(g, layers, editable) ==
    IF Len(layers) < 2 THEN {}
    ELSE Bind(all_layer_intersections(g, layers, 1, 2), LAMBDA all_intersections :
             {layer_id \in DOMAIN g \ editable :
                 \E k \in DOMAIN all_intersections :
                     layer_id \in {all_intersections[k].layer1_id,
                                   all_intersections[k].layer2_id}})

\* the edit state after apply_external: the layers it started are committed, a
\* layer it found in edit state stays as it is
external_editable(g, layers, editable) ==
    (editable \cup layers_to_commit(g, layers, editable))
        \ layers_to_commit(g, layers, editable)

\* the edit state after undo_last_correction: every layer of the entry that
\* mapLayer finds is put in edit state and committed
undo_editable(g, stack, editable) ==
    IF stack = <<>> THEN editable
    ELSE editable \ {Last(stack).layers[k].layer_id : k \in DOMAIN Last(stack).layers}

\* the selections of this world: both layers, in either order
EditSelections == {<<1, 2>>, <<2, 1>>}

\* the user toggles editing on for a layer in QGIS
toggle_editing ==
    \E layer_id \in LayerIds \ last.editable :
        /\ last' = [op |-> "toggle_editing", msg |-> "Ready", before |-> None,
                    layers |-> <<layer_id>>, was_editable |-> last.editable,
                    editable |-> last.editable \cup {layer_id}]
        /\ UNCHANGED <<geoms, paths, nodes_csv, undo_stack, correction_history,
                       contour_ref, detected_contour_issues, verify_results>>

EditRunDetection ==
    \E layers \in EditSelections, insert_intersections \in BOOLEAN :
        IF layers = <<>> \/ ~paths.output
        THEN /\ last' = [op |-> "run_detection",
                          msg |-> IF layers = <<>> THEN "No Layer" ELSE "No Output",
                          before |-> None, layers |-> layers,
                          was_editable |-> last.editable, editable |-> last.editable]
             /\ UNCHANGED <<geoms, paths, nodes_csv, undo_stack, correction_history,
                            contour_ref, detected_contour_issues, verify_results>>
        ELSE IF \E k \in DOMAIN layers : ~hasZ(geoms[layers[k]])
        THEN /\ last' = [op |-> "run_detection", msg |-> "No Z", before |-> None,
                          layers |-> layers, was_editable |-> last.editable,
                          editable |-> last.editable]
             /\ UNCHANGED <<geoms, paths, nodes_csv, undo_stack, correction_history,
                            contour_ref, detected_contour_issues, verify_results>>
        ELSE \E r \in {detection(geoms, layers, insert_intersections,
                                  intersection_tolerance)} :
                 /\ geoms' = r.geoms
                 /\ nodes_csv' = r.problems
                 /\ last' = [op |-> "run_detection",
                             msg |-> IF r.problems # <<>> THEN "Found problem nodes"
                                     ELSE "Perfect data",
                             before |-> None, layers |-> layers,
                             was_editable |-> last.editable,
                             editable |-> detection_editable(geoms, r.geoms,
                                                             last.editable)]
                 /\ verify_results' = IF r.problems # <<>> THEN verify_results
                                       ELSE [verify_results EXCEPT !.export_enabled = TRUE]
                 /\ UNCHANGED <<paths, undo_stack, correction_history, contour_ref,
                                detected_contour_issues>>

EditApplyInternal ==
    IF nodes_csv = <<>>
    THEN /\ last' = [op |-> "apply_internal", msg |-> "No Data", before |-> None,
                      layers |-> <<>>, was_editable |-> last.editable,
                      editable |-> last.editable]
         /\ UNCHANGED <<geoms, paths, nodes_csv, undo_stack, correction_history,
                        contour_ref, detected_contour_issues, verify_results>>
    ELSE /\ Len(correction_history) < MaxMixed
         /\ \E r \in {apply_internal([geoms |-> geoms, nodes_csv |-> nodes_csv,
                                       undo_stack |-> undo_stack,
                                       correction_history |-> correction_history])} :
                /\ geoms' = r.geoms
                /\ undo_stack' = r.undo_stack
                /\ correction_history' = r.correction_history
                /\ last' = [op |-> "apply_internal", msg |-> r.msg,
                            before |-> Some(geoms), layers |-> <<>>,
                            was_editable |-> last.editable,
                            editable |-> internal_editable(geoms, nodes_csv,
                                                           last.editable)]
         /\ UNCHANGED <<paths, nodes_csv, contour_ref,
                        detected_contour_issues, verify_results>>

EditApplyExternal ==
    \E layers \in EditSelections :
        \E r \in {apply_external([geoms |-> geoms, undo_stack |-> undo_stack,
                                  correction_history |-> correction_history], layers)} :
            /\ may_record(correction_history, r.correction_history, MaxMixed)
            /\ geoms' = r.geoms
            /\ undo_stack' = r.undo_stack
            /\ correction_history' = r.correction_history
            /\ last' = [op |-> "apply_external", msg |-> r.msg,
                        before |-> IF r.msg = "External Corrections Complete"
                                   THEN Some(geoms) ELSE None,
                        layers |-> layers, was_editable |-> last.editable,
                        editable |-> external_editable(geoms, layers, last.editable)]
            /\ UNCHANGED <<paths, nodes_csv, contour_ref,
                           detected_contour_issues, verify_results>>

EditUndo ==
    \E r \in {undo_last_correction([geoms |-> geoms, undo_stack |-> undo_stack,
                                    correction_history |-> correction_history])} :
        /\ geoms' = r.geoms
        /\ undo_stack' = r.undo_stack
        /\ correction_history' = r.correction_history
        /\ last' = [op |-> "undo_last_correction", msg |-> r.msg, before |-> None,
                    layers |-> <<>>, was_editable |-> last.editable,
                    editable |-> undo_editable(geoms, undo_stack, last.editable)]
        /\ UNCHANGED <<paths, nodes_csv, contour_ref,
                       detected_contour_issues, verify_results>>

NextEdit ==
    \/ toggle_editing
    \/ EditRunDetection
    \/ EditApplyInternal
    \/ EditApplyExternal
    \/ EditUndo

InitEdit ==
    /\ geoms \in networks
    /\ paths = [output |-> TRUE, contour |-> FALSE]
    /\ nodes_csv = <<>>
    /\ undo_stack = <<>>
    /\ correction_history = <<>>
    /\ last = [op |-> "none", msg |-> "Ready", before |-> None, layers |-> <<>>,
               was_editable |-> {}, editable |-> {}]
    /\ contour_ref = contour_file(contour_layer)
    /\ detected_contour_issues = <<>>
    /\ verify_results = no_report

SpecEdit == InitEdit /\ [][NextEdit]_vars

\* the step is a run of one of the handlers that write to the layers
mutating_run ==
    /\ last'.op \in {"run_detection", "apply_internal", "apply_external",
                     "undo_last_correction"}
    /\ NextEdit

\* C27: when a handler that writes to the layers returns, no layer it changed
\* is left in edit state with the change uncommitted, also when the layer was
\* in edit state before the handler started.
C27_ChangesCommitted ==
    [][mutating_run
          => changed_layers(geoms, geoms') \cap last'.editable = {}]_vars

\* C27, the case the code gets right: apply_internal found a layer in edit
\* state, changed it and committed it
C27_InternalCommitsOpenLayer ==
    /\ last.op = "apply_internal"
    /\ last.before # None
    /\ changed_layers(last.before[1], geoms) \cap last.was_editable # {}
    /\ last.editable = {}

-----------------------------------------------------------------------------
(* Export: the correction log *)

\* the rows do_export writes for one entry of the correction history: two rows
\* for an external record, one for an internal or a contour record
log_rows(entry) ==
    Concat([k \in DOMAIN entry.corrections |->
        Bind(entry.corrections[k], LAMBDA corr :
            IF entry.type = "external"
            THEN <<[type |-> entry.type, layer_id |-> corr.layer1_id,
                    x |-> corr.x, y |-> corr.y, fid |-> corr.fid1,
                    z_old |-> corr.z1, z_new |-> Min2(corr.z1, corr.z2)],
                   [type |-> entry.type, layer_id |-> corr.layer2_id,
                    x |-> corr.x, y |-> corr.y, fid |-> corr.fid2,
                    z_old |-> corr.z2, z_new |-> Min2(corr.z1, corr.z2)]>>
            ELSE <<[type |-> entry.type, layer_id |-> corr.layer_id,
                    x |-> corr.x, y |-> corr.y, fid |-> corr.fid,
                    z_old |-> corr.z_old,
                    z_new |-> IF "z_new" \in DOMAIN corr THEN corr.z_new
                              ELSE corr.z_contour]>>)])

\* the rows of the "Export correction log (CSV)" step of do_export
correction_log(history) == Concat([i \in DOMAIN history |-> log_rows(history[i])])

\* the last handler was a correction that added an entry to the history
correction_recorded ==
    /\ last.op \in {"apply_internal", "apply_external", "apply_contour"}
    /\ last.before # None
    /\ correction_history # <<>>

\* C28: every row the export writes for the correction just recorded reflects
\* the change made: z_old is the Z the line had at the point before the
\* correction, z_new the Z its vertex there has after it.
C28_LogReflectsChanges ==
    correction_recorded
        => \A row \in Range(log_rows(Last(correction_history))) :
               /\ row.z_old = z_at(last.before[1][row.layer_id][row.fid], row.x, row.y)
               /\ feature_z_values(geoms[row.layer_id][row.fid], row.x, row.y)
                      = {row.z_new}

\* C28, the case the code gets right: the row of a contour correction carries
\* the Z the line had and the contour Z written
C28_ContourRowExact ==
    /\ correction_recorded
    /\ last.op = "apply_contour"
    /\ \A row \in Range(log_rows(Last(correction_history))) :
           /\ row.z_old = z_at(last.before[1][row.layer_id][row.fid], row.x, row.y)
           /\ row.z_old # row.z_new
           /\ feature_z_values(geoms[row.layer_id][row.fid], row.x, row.y)
                  = {row.z_new}

-----------------------------------------------------------------------------
(* Quick verification and "Correct Remaining Issues" *)

\* In this world the record of the last run also carries the two buttons of the
\* correction tab: quick_verify_btn (enabled) and correct_remaining_btn
\* (visible), as the handler left them.

\* the node list quick_verify rebuilds for one layer: for every (x, y) whose
\* vertices with abs(z) > 1e-10 hold more than one Z, the entries {'fid', 'z'}
\* of the index and the range of the Z values
remaining_nodes(g, layer_id) ==
    Bind(layer_entries(g, layer_id), LAMBDA entries :
    Bind(internal_issues(g, layer_id), LAMBDA remaining_issues :
        [i \in DOMAIN remaining_issues |->
            Bind(SelectSeq(entries, LAMBDA e : /\ e.x = remaining_issues[i].x
                                               /\ e.y = remaining_issues[i].y),
                 LAMBDA at :
                     [x |-> remaining_issues[i].x, y |-> remaining_issues[i].y,
                      entries |-> [j \in DOMAIN at |-> [fid |-> at[j].fid, z |-> at[j].z]],
                      z_min |-> SeqMin([j \in DOMAIN at |-> at[j].z]),
                      z_max |-> SeqMax([j \in DOMAIN at |-> at[j].z])])]))

\* entry['layer_id'] of the first loop of apply_internal raises KeyError
raises_key_error(nodes) ==
    \E n \in DOMAIN nodes : \E e \in DOMAIN nodes[n].entries :
        "layer_id" \notin DOMAIN nodes[n].entries[e]

RemainingApplyExternal ==
    \E layers \in Selections :
        \E r \in {apply_external([geoms |-> geoms, undo_stack |-> undo_stack,
                                  correction_history |-> correction_history], layers)} :
            /\ may_record(correction_history, r.correction_history, MaxMixed)
            /\ geoms' = r.geoms
            /\ undo_stack' = r.undo_stack
            /\ correction_history' = r.correction_history
            /\ last' = [op |-> "apply_external", msg |-> r.msg,
                        before |-> IF r.msg = "External Corrections Complete"
                                   THEN Some(geoms) ELSE None,
                        layers |-> layers,
                        quick_verify_btn |-> IF r.msg = "External Corrections Complete"
                                             THEN TRUE ELSE last.quick_verify_btn,
                        correct_remaining_btn |-> last.correct_remaining_btn]
            /\ UNCHANGED <<paths, nodes_csv, contour_ref,
                           detected_contour_issues, verify_results>>

quick_verify ==
    /\ last.quick_verify_btn
    /\ \E layers \in Selections :
        IF layers = <<>>
        THEN /\ last' = [op |-> "quick_verify", msg |-> "No Layer", before |-> None,
                          layers |-> layers,
                          quick_verify_btn |-> last.quick_verify_btn,
                          correct_remaining_btn |-> last.correct_remaining_btn]
             /\ UNCHANGED <<geoms, paths, nodes_csv, undo_stack, correction_history,
                            contour_ref, detected_contour_issues, verify_results>>
        ELSE \E nodes \in {remaining_nodes(geoms, layers[1])} :
                 /\ nodes_csv' = IF nodes # <<>> THEN nodes ELSE nodes_csv
                 /\ last' = [op |-> "quick_verify",
                             msg |-> IF nodes # <<>> THEN "issues remain"
                                     ELSE "Quick verify passed",
                             before |-> None, layers |-> layers,
                             quick_verify_btn |-> last.quick_verify_btn,
                             correct_remaining_btn |-> nodes # <<>>]
                 /\ UNCHANGED <<geoms, paths, undo_stack, correction_history,
                                contour_ref, detected_contour_issues, verify_results>>

\* correct_remaining: apply_internal on self.nodes_csv as it is
correct_remaining ==
    /\ last.correct_remaining_btn
    /\ IF nodes_csv = <<>>
       THEN /\ last' = [op |-> "correct_remaining", msg |-> "No Data", before |-> None,
                         layers |-> <<>>,
                         quick_verify_btn |-> last.quick_verify_btn,
                         correct_remaining_btn |-> last.correct_remaining_btn]
            /\ UNCHANGED <<geoms, paths, nodes_csv, undo_stack, correction_history,
                           contour_ref, detected_contour_issues, verify_results>>
       ELSE IF raises_key_error(nodes_csv)
       THEN /\ last' = [op |-> "correct_remaining", msg |-> "KeyError: 'layer_id'",
                         before |-> None, layers |-> <<>>,
                         quick_verify_btn |-> last.quick_verify_btn,
                         correct_remaining_btn |-> last.correct_remaining_btn]
            /\ UNCHANGED <<geoms, paths, nodes_csv, undo_stack, correction_history,
                           contour_ref, detected_contour_issues, verify_results>>
       ELSE /\ Len(correction_history) < MaxHistory
            /\ \E r \in {apply_internal([geoms |-> geoms, nodes_csv |-> nodes_csv,
                                          undo_stack |-> undo_stack,
                                          correction_history |-> correction_history])} :
                   /\ geoms' = r.geoms
                   /\ undo_stack' = r.undo_stack
                   /\ correction_history' = r.correction_history
                   /\ last' = [op |-> "correct_remaining", msg |-> r.msg,
                               before |-> Some(geoms), layers |-> <<>>,
                               quick_verify_btn |-> TRUE,
                               correct_remaining_btn |-> last.correct_remaining_btn]
            /\ UNCHANGED <<paths, nodes_csv, contour_ref,
                           detected_contour_issues, verify_results>>

NextRemaining ==
    \/ RemainingApplyExternal
    \/ quick_verify
    \/ correct_remaining

InitRemaining ==
    /\ geoms \in surveys
    /\ paths = [output |-> TRUE, contour |-> FALSE]
    /\ nodes_csv = <<>>
    /\ undo_stack = <<>>
    /\ correction_history = <<>>
    /\ last = [op |-> "none", msg |-> "Ready", before |-> None, layers |-> <<>>,
               quick_verify_btn |-> FALSE, correct_remaining_btn |-> FALSE]
    /\ contour_ref = contour_file(contour_layer)
    /\ detected_contour_issues = <<>>
    /\ verify_results = no_report

SpecRemaining == InitRemaining /\ [][NextRemaining]_vars

\* C29: a correct_remaining run right after a quick_verify that reported
\* remaining issues completes as a correction and leaves fewer issues in the
\* verified layer than the quick_verify reported.
C29_RemainingCorrected ==
    [][(/\ last.op = "quick_verify"
        /\ last.msg = "issues remain"
        /\ last'.op = "correct_remaining"
        /\ correct_remaining)
          => /\ last'.msg = "Corrections Complete"
             /\ Len(remaining_nodes(geoms', last.layers[1])) < Len(nodes_csv)]_vars

\* C29: the quick_verify found issues that an external correction left in the
\* layer and made "Correct Remaining Issues" visible
C29_IssuesRemain ==
    /\ last.op = "quick_verify"
    /\ last.msg = "issues remain"
    /\ last.correct_remaining_btn
    /\ correction_history # <<>>
    /\ nodes_csv = remaining_nodes(geoms, last.layers[1])

-----------------------------------------------------------------------------
(* Export gating *)

\* the step leaves the layers checked and clean: a verification that passed, or
\* a detection that found no problem node
clean_check ==
    \/ last'.op = "run_verification" /\ last'.msg = "VERIFICATION PASSED"
    \/ last'.op = "run_detection" /\ last'.msg = "Perfect data"

\* C30: the export button is enabled only while the most recent check of the
\* layers as they are reported zero differences: a verification that fails
\* leaves it disabled, and so does every step that changes a layer, unless the
\* step itself ends with a clean check.
C30_ExportGated ==
    [][/\ (last'.op = "run_verification" /\ last'.msg = "VERIFICATION FAILED")
              => ~verify_results'.export_enabled
       /\ (geoms' # geoms /\ ~clean_check) => ~verify_results'.export_enabled]_vars

\* C30, the case the code gets right: a verification that passed has enabled
\* the export of layers that no step has changed since
C30_EnabledByPass ==
    /\ last.op = "run_verification"
    /\ last.msg = "VERIFICATION PASSED"
    /\ verify_results.export_enabled
    /\ internal_issues(geoms, last.layers[1]) = <<>>

=============================================================================
